---- MODULE Spec2Model ----
(***************************************************************************)
(* Proof-of-stake kernel of src/src/pos/kernel.cpp: the legacy stake       *)
(* modifier (GetLastStakeModifier, SelectBlockFromCandidates,              *)
(* ComputeNextStakeModifier), the v2 modifier (ComputeStakeModifier), the  *)
(* modifier lookup (GetKernelStakeModifier), the kernel hash and the       *)
(* weighted target check (GetHashProofOfStake, CheckStakeKernelHash), the  *)
(* kernel search (Stake), the validation of a block (initStakeInput,       *)
(* CheckProofOfStake, CheckCoinStakeTimestamp) and the modifier            *)
(* checkpoints (CheckStakeModifierCheckpoints).                            *)
(*                                                                         *)
(* The specifications share the variables:                                 *)
(*   Spec          the block index grown block by block, every block       *)
(*                 storing the results of ComputeNextStakeModifier and     *)
(*                 ComputeStakeModifier on its parent, the node being      *)
(*                 restarted at any time;                                  *)
(*   SpecLong      the same chain grown higher by one process, the blocks  *)
(*                 taking the hashes 1, 2, ... in turn;                    *)
(*   SpecWindow    the same chain with block times on both sides of the    *)
(*                 start of the selection window;                          *)
(*   SpecLast      a block index as it is loaded, with any flags, and      *)
(*                 calls of GetLastStakeModifier;                          *)
(*   SpecSection   the cutoff of the selection rounds, round by round;     *)
(*   SpecSelect    SelectBlockFromCandidates on candidate vectors that     *)
(*                 hold blocks with the same raw selection hash;           *)
(*   SpecLookup    a chain with reorganisations, then one call of          *)
(*                 GetKernelStakeModifier;                                 *)
(*   SpecProof     two calls of GetHashProofOfStake;                       *)
(*   SpecTarget    CheckStakeKernelHash on 256-bit numbers;                *)
(*   SpecStake     the search loop of Stake interleaved with the chain     *)
(*                 writer, Stake being called again and again;             *)
(*   SpecStakeLive  one call of Stake against the chain writer, the thread *)
(*                 that runs Stake taking its steps;                       *)
(*   SpecValidate  CheckProofOfStake on a candidate block, twice;          *)
(*   SpecCheckpoint  calls of CheckStakeModifierCheckpoints.               *)
(*                                                                         *)
(* The DHT session of src/unnamed/part_001 and src/src/dht/bootstrap.cpp   *)
(* has specifications of its own on the same variables:                    *)
(*   SpecPut       calls of CHashTableSession::SubmitPut as the clock      *)
(*                 advances;                                               *)
(*   SpecNetwork   calls of StartTorrentDHTNetwork and                     *)
(*                 StopTorrentDHTNetwork of src/unnamed/part_001 and the   *)
(*                 worker threads they create;                             *)
(*   SpecAlert     calls of GetDHTMutableData and PutDHTMutableData of     *)
(*                 src/src/dht/bootstrap.cpp waiting in wait_for_alert     *)
(*                 while the network is stopped and started.               *)
(***************************************************************************)
EXTENDS Integers, Sequences, FiniteSets, TLC

VARIABLES
    mapBlockIndex,      \* block hash -> CBlockIndex record
    chainActive,        \* the active chain: block hashes by height (index = height + 1)
    pszStakeModifier,   \* address of the string literal "stakemodifier" in the running process
    call,               \* the last call of ComputeNextStakeModifier: its argument and outputs
    hashSalt,           \* selects the hash function Hash() of this run of the model
    target,             \* the last call of CheckStakeKernelHash: its inputs and result
    stake,              \* the frame of the running call of Stake
    tipHeight,          \* chainActive.Height() as the chain writer changes it under Stake
    mapHashedBlocks,    \* height -> time of the last hashing on that height
    lookup,             \* the last call of GetKernelStakeModifier: its arguments and outputs
    proof,              \* the last call of GetHashProofOfStake: its arguments and its stream
    validation,         \* the last call of CheckProofOfStake: the block and the outcome
    mapStakeModifierCheckpoints,    \* height -> checksum of the stake modifier
    checkpoint,         \* the last calls of CheckStakeModifierCheckpoints
    lastModifier,       \* the last call of GetLastStakeModifier: its arguments and outputs
    schedule,           \* the round counter and the cutoff of the loop of selection rounds
    selection,          \* the last call of SelectBlockFromCandidates: its arguments and outputs
    putSession,         \* the CHashTableSession, the clock and its last call of SubmitPut
    dhtNetwork,         \* fShutdown, fStarted, pDHTTorrentThread, the worker threads and the caller
    dhtBootstrap        \* bootstrap.cpp: fShutdown, dhtTorrentThread and the call waiting for an alert

vars == <<mapBlockIndex, chainActive, pszStakeModifier, call, hashSalt, target, stake,
          tipHeight, mapHashedBlocks, lookup, proof, validation,
          mapStakeModifierCheckpoints, checkpoint, lastModifier,
          schedule, selection, putSession, dhtNetwork, dhtBootstrap>>

chainVars == <<mapBlockIndex, chainActive, pszStakeModifier, call, hashSalt>>

stakeVars == <<stake, tipHeight, mapHashedBlocks>>

checkpointVars == <<mapStakeModifierCheckpoints, checkpoint>>

selectVars == <<selection>>

dhtVars == <<putSession, dhtNetwork, dhtBootstrap>>

auxVars == <<lastModifier, schedule, selectVars, dhtVars>>

kernelVars == <<lookup, proof, validation, checkpointVars, auxVars>>

----------------------------------------------------------------------------
(* Bounds of the model *)

\* highest block height of a chain grown under Spec
MaxHeight == 3

\* highest block height of a chain grown under SpecLong
MaxHeightLong == 5

\* bits of an unsigned int of the model (32 in the build)
UintBits == 16

\* highest height the active tip takes under SpecStake
MaxTip == 2

\* blocks in the block index under SpecLookup
MaxBlocks == 5

\* highest block height of the chain a block is validated on under SpecValidate
ValidateHeight == 1

\* highest block height of a chain grown under SpecWindow
MaxHeightWindow == 4

\* highest block height of a block index loaded under SpecLast
MaxLoad == 2

\* last value of GetTime() under SpecPut
MaxClock == 17

\* calls of StartTorrentDHTNetwork under SpecNetwork
MaxStarts == 3

\* alerts of a batch of pop_alerts under SpecAlert
MaxAlerts == 2

\* rounds of a call of wait_for_alert under SpecAlert
MaxPolls == 2

\* threads created by StartTorrentDHTNetwork under SpecAlert
MaxThreads == 2

----------------------------------------------------------------------------
(* Program constants *)

OLD_MODIFIER_INTERVAL == 2087

MODIFIER_INTERVAL == 60

MODIFIER_INTERVAL_RATIO == 3

\* (const CBlockIndex*)0 and the hash no block has
NullHash == 0

\* block hashes; a block's hash fixes its content
Hashes == 1 .. (MaxHeightLong + 1)

\* CBlockIndex::IsProofOfStake of the block with hash h
IsProofOfStake(h) == h % 2 = 1

\* CBlockIndex::GetStakeEntropyBit of the block with hash h
GetStakeEntropyBit(h) == (h \div 2) % 2

\* block timestamps a new block may carry
BlockTimes == {30, 59, 60, 2220}

\* addresses the loader may give the string literal "stakemodifier"
StringLiteralAddrs == {4202496, 4206592}

\* hash functions the model is run with
HashSalts == {0, 1}

----------------------------------------------------------------------------
(* Bit operations on uint64_t *)

RECURSIVE Pow2(_)
Pow2(n) == IF n = 0 THEN 1 ELSE 2 * Pow2(n - 1)

\* a | b
RECURSIVE BitOr(_, _)
BitOr(a, b) ==
    IF a = 0 THEN b
    ELSE IF b = 0 THEN a
    ELSE (IF a % 2 = 1 \/ b % 2 = 1 THEN 1 ELSE 0) + 2 * BitOr(a \div 2, b \div 2)

Min(a, b) == IF a < b THEN a ELSE b

----------------------------------------------------------------------------
(* uint256 / arith_uint256: 32 bytes, least significant first *)

WIDTH == 32

Uint256Zero == [i \in 1 .. WIDTH |-> 0]

\* a < b on arith_uint256 (CompareTo from the most significant limb down)
RECURSIVE LessFrom(_, _, _)
LessFrom(a, b, i) ==
    IF i = 0 THEN FALSE
    ELSE IF a[i] # b[i] THEN a[i] < b[i]
    ELSE LessFrom(a, b, i - 1)

Uint256Less(a, b) == LessFrom(a, b, WIDTH)

\* a >>= 32
ShiftRight32(a) == [i \in 1 .. WIDTH |-> IF i + 4 <= WIDTH THEN a[i + 4] ELSE 0]

\* Hash(ss.begin(), ss.end()) of the stream (hashProof, nStakeModifierPrev):
\* an arbitrary fixed function into uint256; it has collisions and values
\* both below and above 2^32
HashSelection(hashProof, nStakeModifierPrev) ==
    LET x == (hashProof * 7 + nStakeModifierPrev * 5 + hashSalt * 3) % 11
    IN  [i \in 1 .. WIDTH |->
            IF i = 1 THEN x % 3
            ELSE IF i = 5 THEN (x \div 3) % 2
            ELSE IF i = 9 THEN x \div 6
            ELSE 0]

----------------------------------------------------------------------------
(* arith_uint256 arithmetic on the limbs *)

\* zero-extension of a number to n limbs
Extend(a, n) == [i \in 1 .. n |-> IF i <= Len(a) THEN a[i] ELSE 0]

\* arith_uint256(uint64_t b), for b below 2^31
FromUint64(b) ==
    [i \in 1 .. WIDTH |->
        IF i = 1 THEN b % 256
        ELSE IF i = 2 THEN (b \div 256) % 256
        ELSE IF i = 3 THEN (b \div 65536) % 256
        ELSE IF i = 4 THEN (b \div 16777216) % 256
        ELSE 0]

\* a <<= 8 * nBytes, the bits shifted out at the top are lost
ShiftLeftBytes(a, nBytes) ==
    [i \in 1 .. WIDTH |-> IF i - nBytes >= 1 THEN a[i - nBytes] ELSE 0]

\* limb k of the column sums of a * b
RECURSIVE ColumnSum(_, _, _, _)
ColumnSum(a, b, k, i) ==
    IF i > k THEN 0
    ELSE a[i] * b[k - i + 1] + ColumnSum(a, b, k, i + 1)

\* limbs k .. n of a * b, the carry out of limb n is dropped
RECURSIVE MulFrom(_, _, _, _, _)
MulFrom(a, b, n, k, carry) ==
    IF k > n THEN <<>>
    ELSE LET sum == ColumnSum(a, b, k, 1) + carry
         IN  <<sum % 256>> \o MulFrom(a, b, n, k + 1, sum \div 256)

\* a *= b on arith_uint256: the product modulo 2^256
Mul256(a, b) == MulFrom(a, b, WIDTH, 1, 0)

\* limbs that hold the product of a 256-bit number and a 64-bit number
WIDE == WIDTH + 8

\* the product of a 256-bit number and a 64-bit number as a natural number
MulExact(a, b) == MulFrom(Extend(a, WIDE), Extend(b, WIDE), WIDE, 1, 0)

\* a / d for a divisor below 256: long division from the most significant limb
RECURSIVE DivFrom(_, _, _, _)
DivFrom(a, d, i, rem) ==
    IF i = 0 THEN <<>>
    ELSE LET cur == rem * 256 + a[i]
         IN  DivFrom(a, d, i - 1, cur % d) \o <<cur \div d>>

DivSmall(a, d) == DivFrom(a, d, WIDTH, 0)

\* a < b on numbers of n limbs
LessLimbs(a, b, n) == LessFrom(Extend(a, n), Extend(b, n), n)

\* arith_uint256::SetCompact(nCompact), the sign and overflow outputs not asked for
SetCompact(nCompact) ==
    LET nSize == nCompact \div 16777216
        nWord == nCompact % 8388608
    IN  IF nSize <= 3
        THEN FromUint64(nWord \div Pow2(8 * (3 - nSize)))
        ELSE ShiftLeftBytes(FromUint64(nWord), nSize - 3)

----------------------------------------------------------------------------
(* GetLastStakeModifier, kernel.cpp:31-44 *)

LastGeneratedWalk_Start(index, h) == h

\* the walk of line 36-37: the block the loop stops at
RECURSIVE LastGeneratedWalk(_, _)
LastGeneratedWalk(index, h) ==
    IF index[h].pprev # NullHash /\ ~index[h].fGeneratedStakeModifier
    THEN LastGeneratedWalk(index, index[h].pprev)
    ELSE h

\* the blocks whose generated flag the walk reads
RECURSIVE LastGeneratedReads(_, _)
LastGeneratedReads(index, h) ==
    IF index[h].pprev # NullHash /\ ~index[h].fGeneratedStakeModifier
    THEN {h} \cup LastGeneratedReads(index, index[h].pprev)
    ELSE {h}

\* outputs are left as the caller passed them (nStakeModifier0, nModifierTime0) on failure
GetLastStakeModifier(index, pindex, nStakeModifier0, nModifierTime0) ==
    IF pindex = NullHash
    THEN [ok |-> FALSE, nStakeModifier |-> nStakeModifier0, nModifierTime |-> nModifierTime0,
          reads |-> {}]
    ELSE LET last == LastGeneratedWalk(index, pindex)
         IN  IF ~index[last].fGeneratedStakeModifier
             THEN [ok |-> FALSE, nStakeModifier |-> nStakeModifier0,
                   nModifierTime |-> nModifierTime0,
                   reads |-> LastGeneratedReads(index, pindex)]
             ELSE [ok |-> TRUE, nStakeModifier |-> index[last].nStakeModifier,
                   nModifierTime |-> index[last].nTime,
                   reads |-> LastGeneratedReads(index, pindex)]

----------------------------------------------------------------------------
(* GetStakeModifierSelectionIntervalSection, kernel.cpp:47-52 *)

GetStakeModifierSelectionIntervalSection_64(nSection) ==
    (64 * MODIFIER_INTERVAL) \div (64 + ((64 - 1 - nSection) * (MODIFIER_INTERVAL_RATIO - 1)))

GetStakeModifierSelectionIntervalSection(nSection) ==
    (MODIFIER_INTERVAL * 63) \div (63 + ((63 - nSection) * (MODIFIER_INTERVAL_RATIO - 1)))

----------------------------------------------------------------------------
(* SelectBlockFromCandidates, kernel.cpp:57-103 *)

AlreadySelected_Never(mapSelectedBlocks, hashBlock) == FALSE

\* line 75: mapSelectedBlocks.count(pindex->GetBlockHash()) > 0
AlreadySelected(mapSelectedBlocks, hashBlock) == hashBlock \in mapSelectedBlocks

BetterSelection_OrEqual(hashSelection, hashBest) == ~Uint256Less(hashBest, hashSelection)

\* line 91: hashSelection < hashBest
BetterSelection(hashSelection, hashBest) == Uint256Less(hashSelection, hashBest)

SelectionHash_Unshifted(pindex, raw) == raw

SelectionHash_ShiftWork(pindex, raw) ==
    IF IsProofOfStake(pindex) THEN raw ELSE ShiftRight32(raw)

\* lines 88-89: the hash of a proof-of-stake block is compared after >>= 32
SelectionHash(pindex, raw) ==
    IF IsProofOfStake(pindex) THEN ShiftRight32(raw) ELSE raw

\* the loop of lines 67-99 from position i on, with the locals fSelected,
\* hashBest and *pindexSelected
RECURSIVE SelectLoop(_, _, _, _, _, _, _, _)
SelectLoop(index, vSortedByTimestamp, mapSelectedBlocks, nSelectionIntervalStop, nStakeModifierPrev, i, fSelected, best) ==
    IF i > Len(vSortedByTimestamp)
    THEN [fSelected |-> fSelected, hashBest |-> best.hashBest, pindexSelected |-> best.pindex]
    ELSE
        LET pindex == vSortedByTimestamp[i][2]
            raw == HashSelection(pindex, nStakeModifierPrev)
            hashSelection == SelectionHash(pindex, raw)
        IN  IF fSelected /\ index[pindex].nTime > nSelectionIntervalStop
            THEN [fSelected |-> fSelected, hashBest |-> best.hashBest,
                  pindexSelected |-> best.pindex]
            ELSE IF AlreadySelected(mapSelectedBlocks, pindex)
            THEN SelectLoop(index, vSortedByTimestamp, mapSelectedBlocks,
                            nSelectionIntervalStop, nStakeModifierPrev, i + 1, fSelected, best)
            ELSE IF fSelected /\ BetterSelection(hashSelection, best.hashBest)
            THEN SelectLoop(index, vSortedByTimestamp, mapSelectedBlocks,
                            nSelectionIntervalStop, nStakeModifierPrev, i + 1, TRUE,
                            [hashBest |-> hashSelection, pindex |-> pindex])
            ELSE IF ~fSelected
            THEN SelectLoop(index, vSortedByTimestamp, mapSelectedBlocks,
                            nSelectionIntervalStop, nStakeModifierPrev, i + 1, TRUE,
                            [hashBest |-> hashSelection, pindex |-> pindex])
            ELSE SelectLoop(index, vSortedByTimestamp, mapSelectedBlocks,
                            nSelectionIntervalStop, nStakeModifierPrev, i + 1, fSelected, best)

SelectBlockFromCandidates(index, vSortedByTimestamp, mapSelectedBlocks, nSelectionIntervalStop, nStakeModifierPrev) ==
    SelectLoop(index, vSortedByTimestamp, mapSelectedBlocks, nSelectionIntervalStop,
               nStakeModifierPrev, 1, FALSE,
               [hashBest |-> Uint256Zero, pindex |-> NullHash])

----------------------------------------------------------------------------
(* ComputeNextStakeModifier, kernel.cpp:137-228 *)

\* lines 170-173: the blocks pushed while walking back from pindexPrev
RECURSIVE CandidateWalk(_, _, _)
CandidateWalk(index, pindex, nSelectionIntervalStart) ==
    IF pindex # NullHash /\ index[pindex].nTime >= nSelectionIntervalStart
    THEN <<<<index[pindex].nTime, pindex>>>>
         \o CandidateWalk(index, index[pindex].pprev, nSelectionIntervalStart)
    ELSE <<>>

\* operator< of std::pair<int64_t, uint256>
PairLess(p, q) == p[1] < q[1] \/ (p[1] = q[1] /\ p[2] < q[2])

\* std::sort of line 177 (the pairs are distinct: every block has its own hash)
RECURSIVE SortPairs(_)
SortPairs(s) ==
    IF Len(s) <= 1 THEN s
    ELSE LET m == CHOOSE k \in 1 .. Len(s) : \A j \in 1 .. Len(s) : ~PairLess(s[j], s[k])
             rest == [j \in 1 .. (Len(s) - 1) |-> IF j < m THEN s[j] ELSE s[j + 1]]
         IN  <<s[m]>> \o SortPairs(rest)

WriteEntropyBit_NoShift(nStakeModifierNew, bit, nRound) ==
    BitOr(nStakeModifierNew, bit)

\* line 192: the entropy bit of the selected block is written at position nRound
WriteEntropyBit(nStakeModifierNew, bit, nRound) ==
    BitOr(nStakeModifierNew, bit * Pow2(nRound))

\* the rounds of lines 183-199 from nRound on
RECURSIVE SelectionRounds(_, _, _, _, _, _, _, _)
SelectionRounds(index, vSortedByTimestamp, nStakeModifier, nRound, nSelectionIntervalStop0, nStakeModifierNew, mapSelectedBlocks, selected) ==
    IF nRound >= Min(64, Len(vSortedByTimestamp))
    THEN [ok |-> TRUE, nStakeModifierNew |-> nStakeModifierNew, selected |-> selected]
    ELSE
        LET nSelectionIntervalStop ==
                nSelectionIntervalStop0 + GetStakeModifierSelectionIntervalSection(nRound)
            sel == SelectBlockFromCandidates(index, vSortedByTimestamp, mapSelectedBlocks,
                                             nSelectionIntervalStop, nStakeModifier)
        IN  IF ~sel.fSelected
            THEN [ok |-> FALSE, nStakeModifierNew |-> nStakeModifierNew, selected |-> selected]
            ELSE SelectionRounds(index, vSortedByTimestamp, nStakeModifier, nRound + 1,
                    nSelectionIntervalStop,
                    WriteEntropyBit(nStakeModifierNew,
                                    GetStakeEntropyBit(sel.pindexSelected), nRound),
                    mapSelectedBlocks \cup {sel.pindexSelected},
                    Append(selected, [pindex |-> sel.pindexSelected,
                                      nSelectionIntervalStop |-> nSelectionIntervalStop]))

NoRounds == <<>>

\* lines 139-144: the outputs when there is no parent
GenesisModifier_NotGenerated == [nStakeModifier |-> 0, fGeneratedStakeModifier |-> FALSE]

GenesisModifier == [nStakeModifier |-> 0, fGeneratedStakeModifier |-> TRUE]

\* lines 145-150: the outputs when the parent is at height 0;
\* uint64_t("stakemodifier") converts the address of the literal
FirstBlockModifier(literalAddr) ==
    [nStakeModifier |-> literalAddr, fGeneratedStakeModifier |-> TRUE]

ModifierNotOldEnough_SameBucket(nModifierTime, nTimePrev) ==
    nModifierTime \div MODIFIER_INTERVAL = nTimePrev \div MODIFIER_INTERVAL

ModifierNotOldEnough_Strict(nModifierTime, nTimePrev) ==
    nModifierTime \div MODIFIER_INTERVAL > nTimePrev \div MODIFIER_INTERVAL

ModifierNotOldEnough_NoInterval(nModifierTime, nTimePrev) ==
    nModifierTime >= nTimePrev

\* line 161: the last modifier is not old enough and is returned again
ModifierNotOldEnough(nModifierTime, nTimePrev) ==
    nModifierTime \div MODIFIER_INTERVAL >= nTimePrev \div MODIFIER_INTERVAL

ReusedModifier_Reset(last) == 0

\* line 162: nStakeModifier holds what GetLastStakeModifier wrote at line 155
ReusedModifier(last) == last.nStakeModifier

SelectionIntervalStart_Unaligned(nTimePrev) == nTimePrev - OLD_MODIFIER_INTERVAL

\* line 167: the window starts OLD_MODIFIER_INTERVAL before the start of the
\* parent's modifier interval
SelectionIntervalStart(nTimePrev) ==
    (nTimePrev \div MODIFIER_INTERVAL) * MODIFIER_INTERVAL - OLD_MODIFIER_INTERVAL

ComputeNextStakeModifier(index, pindexPrev, literalAddr) ==
    IF pindexPrev = NullHash
    THEN [ok |-> TRUE, nStakeModifier |-> GenesisModifier.nStakeModifier,
          fGeneratedStakeModifier |-> GenesisModifier.fGeneratedStakeModifier,
          reads |-> {}, vSortedByTimestamp |-> <<>>, selected |-> NoRounds]
    ELSE IF index[pindexPrev].nHeight = 0
    THEN [ok |-> TRUE, nStakeModifier |-> FirstBlockModifier(literalAddr).nStakeModifier,
          fGeneratedStakeModifier |-> FirstBlockModifier(literalAddr).fGeneratedStakeModifier,
          reads |-> {}, vSortedByTimestamp |-> <<>>, selected |-> NoRounds]
    ELSE
        LET last == GetLastStakeModifier(index, pindexPrev, 0, 0)
        IN  IF ~last.ok
            THEN [ok |-> FALSE, nStakeModifier |-> last.nStakeModifier,
                  fGeneratedStakeModifier |-> FALSE,
                  reads |-> last.reads, vSortedByTimestamp |-> <<>>, selected |-> NoRounds]
            ELSE IF ModifierNotOldEnough(last.nModifierTime, index[pindexPrev].nTime)
            THEN [ok |-> TRUE, nStakeModifier |-> ReusedModifier(last),
                  fGeneratedStakeModifier |-> FALSE,
                  reads |-> last.reads, vSortedByTimestamp |-> <<>>, selected |-> NoRounds]
            ELSE
                LET nSelectionIntervalStart == SelectionIntervalStart(index[pindexPrev].nTime)
                    vSortedByTimestamp ==
                        SortPairs(CandidateWalk(index, pindexPrev, nSelectionIntervalStart))
                    rounds == SelectionRounds(index, vSortedByTimestamp, last.nStakeModifier,
                                              0, nSelectionIntervalStart, 0, {}, NoRounds)
                IN  IF ~rounds.ok
                    THEN [ok |-> FALSE, nStakeModifier |-> last.nStakeModifier,
                          fGeneratedStakeModifier |-> FALSE, reads |-> last.reads,
                          vSortedByTimestamp |-> vSortedByTimestamp,
                          selected |-> rounds.selected]
                    ELSE [ok |-> TRUE, nStakeModifier |-> rounds.nStakeModifierNew,
                          fGeneratedStakeModifier |-> TRUE, reads |-> last.reads,
                          vSortedByTimestamp |-> vSortedByTimestamp,
                          selected |-> rounds.selected]

----------------------------------------------------------------------------
(* ComputeStakeModifier, kernel.cpp:112-122 *)

\* the weighted byte sum of a stream from position i on
RECURSIVE StreamSum(_, _)
StreamSum(stream, i) ==
    IF i > Len(stream) THEN 0
    ELSE (i * stream[i]) + StreamSum(stream, i + 1)

\* Hash(begin, end) and CHashWriter::GetHash of a byte stream: an arbitrary
\* fixed function of the bytes and their positions into uint256 (it has
\* collisions, as a model of 2^256 values in a handful must)
HashBytes(stream) ==
    LET x == (StreamSum(stream, 1) * 31 + Len(stream) * 17 + hashSalt) % 251
    IN  [i \in 1 .. WIDTH |->
            IF i = 1 THEN x
            ELSE IF i = 2 THEN (x * 7 + 3) % 256
            ELSE IF i = WIDTH THEN x % 2
            ELSE 0]

\* operator<< of a uint256: its 32 bytes in memory order
SerializeUint256(a) == [i \in 1 .. WIDTH |-> a[i]]

ModifierV2Stream_Legacy(kernel, prev) ==
    SerializeUint256(kernel) \o SerializeUint256(FromUint64(prev.nStakeModifier))

\* lines 117-119: the stream the hash writer is fed
ModifierV2Stream(kernel, prev) ==
    SerializeUint256(kernel) \o SerializeUint256(prev.nStakeModifierV2)

ComputeStakeModifier(index, pindexPrev, kernel) ==
    IF pindexPrev = NullHash
    THEN Uint256Zero
    ELSE HashBytes(ModifierV2Stream(kernel, index[pindexPrev]))

\* the number v * 256^(i-1)
Limb(i, v) == [k \in 1 .. WIDTH |-> IF k = i THEN v ELSE 0]

\* the kernel (hash of the staked output's transaction) of the block with hash h
KernelOf(h) == Limb(1 + (h % 2), h)

----------------------------------------------------------------------------
(* The block index and the chain writer *)

NoCall == [pindexPrev |-> NullHash, made |-> FALSE, ret |-> <<>>]

NoTarget == [made |-> FALSE]

NoStake == [pc |-> "idle"]

NoLookup == [made |-> FALSE]

NoProof == [made |-> FALSE]

NoValidation == [made |-> FALSE]

NoCheckpoint == [made |-> FALSE]

NoLast == [made |-> FALSE]

NoSchedule == [started |-> FALSE]

NoSelection == [made |-> FALSE]

\* pDHTTorrentThread == NULL
NullThread == 0

\* lines 163-166 before the first call: the statics are zero; no thread was
\* created; the caller is in neither function.
\* workers: the threads created so far, by number, each "waiting" (in the
\* loop of lines 279-290), "starting" (past the loop), "returned" or "joined";
\* pc, inCall: where the caller is and the function it called; nStarts,
\* nReturns: the calls of StartTorrentDHTNetwork made and returned.
NoNetwork ==
    [fShutdown |-> FALSE, fStarted |-> FALSE, pDHTTorrentThread |-> NullThread,
     workers |-> <<>>, listening |-> FALSE, aborted |-> FALSE,
     pc |-> "idle", inCall |-> "none", nStarts |-> 0, nReturns |-> 0]

\* alert* ret = nullptr
NullAlert == [type |-> "none"]

\* bootstrap.cpp lines 31-33 before the first call, with a session: the
\* statics are zero; no call waits for an alert.
\* nThreads: the threads created; pc: where the call of GetDHTMutableData or
\* PutDHTMutableData is; alert_type, ret, nPolls: the argument, the result and
\* the rounds of its wait_for_alert; read: what the call read from the alert.
NoBootstrap ==
    [fShutdown |-> FALSE, dhtTorrentThread |-> NullThread, nThreads |-> 0,
     pc |-> "idle", caller |-> "none", alert_type |-> "none", ret |-> NullAlert,
     nPolls |-> 0, read |-> "none"]

\* no CHashTableSession has been constructed
NoSession ==
    [created |-> FALSE, now |-> 0, mPutCommands |-> <<>>, vDataEntries |-> 0,
     nPutRecords |-> 0, strPutErrorMessage |-> "", accepted |-> <<>>,
     call |-> [flip |-> FALSE], crashed |-> FALSE]

\* an unsigned int as its four bytes, least significant first
Uint32Bytes(b0, b1, b2, b3) == <<b0, b1, b2, b3>>

\* lines 27-28: map_list_of(0, 0xfd11f4e7u)
StakeModifierCheckpoints == [nHeight \in {0} |-> Uint32Bytes(231, 244, 17, 253)]

Tip == IF Len(chainActive) = 0 THEN NullHash ELSE chainActive[Len(chainActive)]

\* hashes a new block may take: the smallest or the largest one not indexed yet
NewHashes ==
    LET unused == Hashes \ DOMAIN mapBlockIndex
    IN  {h \in unused : (\A g \in unused : h <= g) \/ (\A g \in unused : h >= g)}

\* a new block is connected on the tip: its index entry stores what
\* ComputeNextStakeModifier returns for its parent and what ComputeStakeModifier
\* returns for its parent and its kernel
ConnectBlock(hash, nTime) ==
    LET r == ComputeNextStakeModifier(mapBlockIndex, Tip, pszStakeModifier)
        pindexNew == [pprev |-> Tip, nHeight |-> Len(chainActive), nTime |-> nTime,
                      nStakeModifier |-> r.nStakeModifier,
                      fGeneratedStakeModifier |-> r.fGeneratedStakeModifier,
                      nStakeModifierV2 |->
                          ComputeStakeModifier(mapBlockIndex, Tip, KernelOf(hash))]
    IN  /\ call' = [pindexPrev |-> Tip, made |-> TRUE, ret |-> r]
        /\ IF r.ok
           THEN /\ mapBlockIndex' = [h \in DOMAIN mapBlockIndex \cup {hash} |->
                                        IF h = hash THEN pindexNew ELSE mapBlockIndex[h]]
                /\ chainActive' = Append(chainActive, hash)
           ELSE UNCHANGED <<mapBlockIndex, chainActive>>
        /\ UNCHANGED <<pszStakeModifier, hashSalt, target, stakeVars, kernelVars>>

AcceptBlock ==
    /\ Len(chainActive) <= MaxHeight
    /\ \E hash \in NewHashes, nTime \in BlockTimes : ConnectBlock(hash, nTime)

AcceptBlockLong ==
    /\ Len(chainActive) <= MaxHeightLong
    /\ \E nTime \in BlockTimes : ConnectBlock(Len(chainActive) + 1, nTime)

\* the node is started again on its stored block index: the image is loaded anew
ProcessStart ==
    /\ \E a \in StringLiteralAddrs \ {pszStakeModifier} : pszStakeModifier' = a
    /\ UNCHANGED <<mapBlockIndex, chainActive, call, hashSalt, target, stakeVars, kernelVars>>

Init ==
    /\ mapBlockIndex = <<>>
    /\ chainActive = <<>>
    /\ pszStakeModifier \in StringLiteralAddrs
    /\ call = NoCall
    /\ hashSalt \in HashSalts
    /\ target = NoTarget
    /\ stake = NoStake
    /\ tipHeight = 0
    /\ mapHashedBlocks = <<>>
    /\ lookup = NoLookup
    /\ proof = NoProof
    /\ validation = NoValidation
    /\ mapStakeModifierCheckpoints = StakeModifierCheckpoints
    /\ checkpoint = NoCheckpoint
    /\ lastModifier = NoLast
    /\ schedule = NoSchedule
    /\ selection = NoSelection
    /\ putSession = NoSession
    /\ dhtNetwork = NoNetwork
    /\ dhtBootstrap = NoBootstrap

Next == AcceptBlock \/ ProcessStart

Spec == Init /\ [][Next]_vars

NextLong == AcceptBlockLong

SpecLong == Init /\ [][NextLong]_vars

\* stored modifiers and times of the blocks of a loaded index
LoadedModifiers == {7, 9}

LoadedTimes == {30, 60}

\* a block of a stored block index is loaded on its parent, the generated
\* flag and the modifier being what the store holds
LoadBlock ==
    /\ ~lastModifier.made
    /\ Len(chainActive) <= MaxLoad
    /\ \E fGeneratedStakeModifier \in BOOLEAN, nStakeModifier \in LoadedModifiers,
          nTime \in LoadedTimes :
        LET hash == Len(chainActive) + 1
            pindexNew == [pprev |-> Tip, nHeight |-> Len(chainActive), nTime |-> nTime,
                          nStakeModifier |-> nStakeModifier,
                          fGeneratedStakeModifier |-> fGeneratedStakeModifier,
                          nStakeModifierV2 |-> Uint256Zero]
        IN  /\ mapBlockIndex' = [h \in DOMAIN mapBlockIndex \cup {hash} |->
                                    IF h = hash THEN pindexNew ELSE mapBlockIndex[h]]
            /\ chainActive' = Append(chainActive, hash)
    /\ UNCHANGED <<pszStakeModifier, call, hashSalt, target, stakeVars, kernelVars>>

\* values the outputs hold before a call
OutputsBefore == {<<0, 0>>, <<5, 1>>}

\* a call of GetLastStakeModifier from a block of the index or from null
CallLastStakeModifier ==
    /\ \E pindex \in DOMAIN mapBlockIndex \cup {NullHash}, before \in OutputsBefore :
        lastModifier' = [made |-> TRUE, pindex |-> pindex, nStakeModifier0 |-> before[1],
                 nModifierTime0 |-> before[2],
                 ret |-> GetLastStakeModifier(mapBlockIndex, pindex, before[1], before[2])]
    /\ UNCHANGED <<chainVars, target, stakeVars, lookup, proof, validation, checkpointVars,
                   schedule, selectVars, dhtVars>>

NextLast == LoadBlock \/ CallLastStakeModifier

SpecLast == Init /\ [][NextLast]_vars

\* times of the parent a cutoff schedule is run for
ScheduleTimes == {30, 60, 2147, 2220}

\* rounds of a vector of 64 candidates or more
ScheduleRounds == 64

\* lines 167 and 180-181: the locals before the first round
ScheduleStart ==
    /\ ~schedule.started
    /\ \E nTimePrev \in ScheduleTimes :
        schedule' = [started |-> TRUE, nTimePrev |-> nTimePrev, nRound |-> 0,
                     nSelectionIntervalStart |-> SelectionIntervalStart(nTimePrev),
                     nSelectionIntervalStop |-> SelectionIntervalStart(nTimePrev),
                     nSection |-> 0]
    /\ UNCHANGED <<chainVars, target, stakeVars, lookup, proof, validation, checkpointVars,
                   lastModifier, selectVars, dhtVars>>

\* lines 183-185: a round adds its interval section to the cutoff
ScheduleRound ==
    /\ schedule.started
    /\ schedule.nRound < ScheduleRounds
    /\ schedule' = [schedule EXCEPT
            !.nSection = GetStakeModifierSelectionIntervalSection(schedule.nRound),
            !.nSelectionIntervalStop =
                schedule.nSelectionIntervalStop
                    + GetStakeModifierSelectionIntervalSection(schedule.nRound),
            !.nRound = schedule.nRound + 1]
    /\ UNCHANGED <<chainVars, target, stakeVars, lookup, proof, validation, checkpointVars,
                   lastModifier, selectVars, dhtVars>>

NextSection == ScheduleStart \/ ScheduleRound

SpecSection == Init /\ [][NextSection]_vars

\* block hashes of the candidates under SpecSelect: the hash function gives
\* the blocks 1 (proof of stake) and 12 (proof of work) the same raw selection
\* hash, and so the blocks 13 (proof of stake) and 2 (proof of work)
SelectHashes == {1, 2, 12, 13}

\* block times of the candidates and cutoffs of the round
SelectTimes == {30, 40}

SelectStops == {25, 35}

\* modifiers the selection hash is computed from
SelectModifiers == 0 .. 3

\* the pairs (time, hash) of the blocks of an index, in any order
RECURSIVE TimedBlocks(_, _)
TimedBlocks(index, blocks) ==
    IF blocks = {} THEN <<>>
    ELSE LET h == CHOOSE b \in blocks : TRUE
         IN  <<<<index[h].nTime, h>>>> \o TimedBlocks(index, blocks \ {h})

\* a call of SelectBlockFromCandidates on a sorted vector of candidates, some
\* of them selected by earlier rounds
SelectCall ==
    /\ ~selection.made
    /\ \E blocks \in (SUBSET SelectHashes) \ {{}}, nSelectionIntervalStop \in SelectStops,
          nStakeModifierPrev \in SelectModifiers :
        \E times \in [blocks -> SelectTimes], mapSelectedBlocks \in SUBSET blocks :
            LET index == [h \in blocks |-> [nTime |-> times[h]]]
                vSortedByTimestamp == SortPairs(TimedBlocks(index, blocks))
            IN  selection' =
                    [made |-> TRUE, index |-> index,
                     vSortedByTimestamp |-> vSortedByTimestamp,
                     mapSelectedBlocks |-> mapSelectedBlocks,
                     nSelectionIntervalStop |-> nSelectionIntervalStop,
                     nStakeModifierPrev |-> nStakeModifierPrev,
                     ret |-> SelectBlockFromCandidates(index, vSortedByTimestamp,
                                mapSelectedBlocks, nSelectionIntervalStop,
                                nStakeModifierPrev)]
    /\ UNCHANGED <<chainVars, target, stakeVars, lookup, proof, validation, checkpointVars,
                   lastModifier, schedule, dhtVars>>

NextSelect == SelectCall

SpecSelect == Init /\ [][NextSelect]_vars

\* block timestamps under SpecWindow: for a parent of time 2147 the selection
\* window starts at 2100 - 2087 = 13
WindowTimes == {10, 30, 2147}

AcceptBlockWindow ==
    /\ Len(chainActive) <= MaxHeightWindow
    /\ \E hash \in NewHashes, nTime \in WindowTimes : ConnectBlock(hash, nTime)

NextWindow == AcceptBlockWindow

SpecWindow == Init /\ [][NextWindow]_vars

----------------------------------------------------------------------------
(* GetKernelStakeModifier, kernel.cpp:232-265 *)

\* CChain::operator[]: the block of the active chain at a height, null outside it
ChainAt(chain, nHeight) ==
    IF nHeight >= 0 /\ nHeight < Len(chain) THEN chain[nHeight + 1] ELSE NullHash

ModifierOldEnough_Sooner(nStakeModifierTime, nTimeFrom) ==
    nStakeModifierTime + 1 >= nTimeFrom + OLD_MODIFIER_INTERVAL

ModifierOldEnough_AnyGenerating(nStakeModifierTime, nTimeFrom) ==
    nStakeModifierTime > nTimeFrom

\* line 260: the loop is left
ModifierOldEnough(nStakeModifierTime, nTimeFrom) ==
    ~(nStakeModifierTime < nTimeFrom + OLD_MODIFIER_INTERVAL)

\* the do-while loop of lines 250-260 from the block pindex on; steps counts
\* the passes through the loop body
RECURSIVE KernelModifierWalk(_, _, _, _, _, _, _)
KernelModifierWalk(index, chain, pindexFrom, pindex, nStakeModifierHeight, nStakeModifierTime, steps) ==
    LET pindexNext == ChainAt(chain, index[pindex].nHeight + 1)
    IN  IF pindexNext = NullHash
        THEN [ok |-> FALSE, nStakeModifier |-> 0,
              nStakeModifierHeight |-> nStakeModifierHeight,
              nStakeModifierTime |-> nStakeModifierTime, pindex |-> pindex,
              steps |-> steps + 1]
        ELSE
            LET fGenerated == index[pindexNext].fGeneratedStakeModifier
                nHeight == IF fGenerated THEN index[pindexNext].nHeight
                           ELSE nStakeModifierHeight
                nTime == IF fGenerated THEN index[pindexNext].nTime ELSE nStakeModifierTime
            IN  IF ModifierOldEnough(nTime, index[pindexFrom].nTime)
                THEN [ok |-> TRUE, nStakeModifier |-> index[pindexNext].nStakeModifier,
                      nStakeModifierHeight |-> nHeight, nStakeModifierTime |-> nTime,
                      pindex |-> pindexNext, steps |-> steps + 1]
                ELSE KernelModifierWalk(index, chain, pindexFrom, pindexNext, nHeight, nTime,
                                        steps + 1)

\* fRegTest: Params().NetworkID() == CBaseChainParams::REGTEST; the height and
\* time outputs are left as the caller passed them when the hash is not indexed
GetKernelStakeModifier(index, chain, hashBlockFrom, fRegTest, nStakeModifierHeight0, nStakeModifierTime0) ==
    IF hashBlockFrom \notin DOMAIN index
    THEN [ok |-> FALSE, nStakeModifier |-> 0, nStakeModifierHeight |-> nStakeModifierHeight0,
          nStakeModifierTime |-> nStakeModifierTime0, pindex |-> NullHash, steps |-> 0]
    ELSE IF fRegTest
    THEN [ok |-> TRUE, nStakeModifier |-> index[hashBlockFrom].nStakeModifier,
          nStakeModifierHeight |-> index[hashBlockFrom].nHeight,
          nStakeModifierTime |-> index[hashBlockFrom].nTime, pindex |-> hashBlockFrom,
          steps |-> 0]
    ELSE KernelModifierWalk(index, chain, hashBlockFrom, hashBlockFrom,
                            index[hashBlockFrom].nHeight, index[hashBlockFrom].nTime, 0)

\* block timestamps under SpecLookup: 2117 is 30 + OLD_MODIFIER_INTERVAL
LookupTimes == {30, 2116, 2117}

\* hashes a lookup is made for: those of the indexed blocks and one more
LookupHashes ==
    DOMAIN mapBlockIndex
        \cup {h \in Hashes \ DOMAIN mapBlockIndex :
                \A g \in Hashes \ DOMAIN mapBlockIndex : h <= g}

\* a new block is connected on the tip, which after a disconnection is not
\* the last block indexed
AcceptBlockFork ==
    /\ ~lookup.made
    /\ Cardinality(DOMAIN mapBlockIndex) < MaxBlocks
    /\ \E hash \in Hashes \ DOMAIN mapBlockIndex :
        /\ \A g \in Hashes \ DOMAIN mapBlockIndex : hash <= g
        /\ \E nTime \in LookupTimes : ConnectBlock(hash, nTime)

\* the tip is disconnected from the active chain and stays in the block index
DisconnectTip ==
    /\ ~lookup.made
    /\ Len(chainActive) >= 2
    /\ chainActive' = SubSeq(chainActive, 1, Len(chainActive) - 1)
    /\ UNCHANGED <<mapBlockIndex, pszStakeModifier, call, hashSalt, target, stakeVars,
                   kernelVars>>

\* a call of GetKernelStakeModifier for any hash, on any network
LookupModifier ==
    /\ ~lookup.made
    /\ \E hashBlockFrom \in LookupHashes, fRegTest \in BOOLEAN :
        lookup' = [made |-> TRUE, hashBlockFrom |-> hashBlockFrom, fRegTest |-> fRegTest,
                   ret |-> GetKernelStakeModifier(mapBlockIndex, chainActive, hashBlockFrom,
                                                  fRegTest, 0, 0)]
    /\ UNCHANGED <<chainVars, target, stakeVars, proof, validation, checkpointVars,
                   auxVars>>

NextLookup == AcceptBlockFork \/ DisconnectTip \/ LookupModifier

SpecLookup == Init /\ [][NextLookup]_vars

----------------------------------------------------------------------------
(* GetHashProofOfStake, kernel.cpp:303-326 *)

\* operator<< of an unsigned int: its 4 bytes, least significant first
SerializeUint32(n) ==
    <<n % 256, (n \div 256) % 256, (n \div 65536) % 256, (n \div 16777216) % 256>>

\* operator<< of a CDataStream: its bytes, no length written before them
SerializeStream(ss) == ss

KernelStream_NoOriginTime(nStakeModifierV2, nTimeBlockFrom, ssUniqueID, nTimeTx) ==
    SerializeUint256(nStakeModifierV2) \o SerializeStream(ssUniqueID)
        \o SerializeUint32(nTimeTx)

\* lines 309-317: the stream that is hashed
KernelStream(nStakeModifierV2, nTimeBlockFrom, ssUniqueID, nTimeTx) ==
    SerializeUint256(nStakeModifierV2) \o SerializeUint32(nTimeBlockFrom)
        \o SerializeStream(ssUniqueID) \o SerializeUint32(nTimeTx)

\* prev: the record of pindexPrev; stakeInput: the stake with its origin
\* block's time (fIndexFrom false: GetIndexFrom returns null); the hash output
\* is left as the caller passed it on failure
GetHashProofOfStake(prev, stakeInput, nTimeTx, hashProofOfStake0) ==
    IF ~stakeInput.fIndexFrom
    THEN [ok |-> FALSE, stream |-> <<>>, hashProofOfStake |-> hashProofOfStake0]
    ELSE LET ss == KernelStream(prev.nStakeModifierV2, stakeInput.nTimeBlockFrom,
                                stakeInput.ssUniqueID, nTimeTx)
         IN  [ok |-> TRUE, stream |-> ss, hashProofOfStake |-> HashBytes(ss)]

\* v2 modifiers of pindexPrev
ModifiersV2 == {Uint256Zero, Limb(WIDTH, 1)}

\* times of the origin block and candidate times
ProofTimes == {0, 1, 256}

\* uniqueness streams of stake inputs, of several lengths
UniqueIDs == {<<>>, <<0>>, <<1>>, <<0, 0, 0, 0>>, <<1, 0, 0, 0, 0>>}

\* the inputs of a call: the parent's record, the stake, the candidate time
\* and the difficulty bits of the block being made
ProofInputs(fIndexFrom) ==
    [prev : [nStakeModifierV2 : ModifiersV2, nStakeModifier : {0, 5}],
     stakeInput : [fIndexFrom : {fIndexFrom}, nTimeBlockFrom : ProofTimes,
                   ssUniqueID : UniqueIDs, nValueIn : {100, 200}],
     nTimeTx : ProofTimes,
     nBits : {504365055, 536936447}]

ProofCall(in, before) ==
    [made |-> TRUE, in |-> in,
     ret |-> GetHashProofOfStake(in.prev, in.stakeInput, in.nTimeTx, Uint256Zero),
     before |-> before]

\* the first call, for a stake of value 100 on a parent with legacy modifier 0
HashProof ==
    /\ ~proof.made
    /\ \E fIndexFrom \in BOOLEAN : \E in \in ProofInputs(fIndexFrom) :
        /\ in.prev.nStakeModifier = 0
        /\ in.stakeInput.nValueIn = 100
        /\ in.nBits = 504365055
        /\ proof' = ProofCall(in, NoProof)
    /\ UNCHANGED <<chainVars, target, stakeVars, lookup, validation, checkpointVars,
                   auxVars>>

\* a second call with any inputs
HashProofAgain ==
    /\ proof.made
    /\ proof.ret.ok
    /\ ~proof.before.made
    /\ \E in \in ProofInputs(TRUE) :
        proof' = ProofCall(in, [made |-> TRUE, in |-> proof.in, ret |-> proof.ret])
    /\ UNCHANGED <<chainVars, target, stakeVars, lookup, validation, checkpointVars,
                   auxVars>>

NextProof == HashProof \/ HashProofAgain

SpecProof == Init /\ [][NextProof]_vars

----------------------------------------------------------------------------
(* CheckStakeKernelHash, kernel.cpp:267-301 *)

\* lines 277-283: the base target times the weight nValueIn / 100
WeightedTarget(nBits, nValueIn) ==
    Mul256(SetCompact(nBits), DivSmall(FromUint64(nValueIn), 100))

\* line 286, with the hash GetHashProofOfStake has produced
CheckStakeKernelHash(hashProofOfStake, nBits, nValueIn) ==
    Uint256Less(hashProofOfStake, WeightedTarget(nBits, nValueIn))

\* kernel hashes the calls are made with: 0, 1, 2^240, 254 * 2^248, 2^256 - 1
KernelHashes ==
    {Uint256Zero, Limb(1, 1), Limb(31, 1), Limb(32, 254), [k \in 1 .. WIDTH |-> 255]}

\* difficulty bits: 0x2000ffff, 0x1e0fffff, 0x04123456, 0x03000001, 0x02008000
DifficultyBits == {536936447, 504365055, 68301910, 50331649, 33587200}

\* stake values in the smallest unit
StakeValues == {0, 99, 100, 200, 6553600, 1677721600}

\* a call of CheckStakeKernelHash; fIndexFrom: the stake has an origin block
\* (GetHashProofOfStake fails without one and no hash is produced)
KernelCheck(fIndexFrom, hashProofOfStake, nBits, nValueIn, before) ==
    [made |-> TRUE, fIndexFrom |-> fIndexFrom, hashProofOfStake |-> hashProofOfStake,
     nBits |-> nBits, nValueIn |-> nValueIn,
     res |-> fIndexFrom /\ CheckStakeKernelHash(hashProofOfStake, nBits, nValueIn),
     before |-> before]

NoBefore == [made |-> FALSE]

\* the first check of a kernel
CheckKernel ==
    /\ ~target.made
    /\ \E fIndexFrom \in BOOLEAN, hashProofOfStake \in KernelHashes, nBits \in DifficultyBits,
          nValueIn \in StakeValues :
        target' = KernelCheck(fIndexFrom, hashProofOfStake, nBits, nValueIn, NoBefore)
    /\ UNCHANGED <<chainVars, stakeVars, kernelVars>>

\* the same kernel is checked again for a stake of another value
CheckKernelAgain ==
    /\ target.made
    /\ target.fIndexFrom
    /\ \E nValueIn \in StakeValues :
        target' = KernelCheck(TRUE, target.hashProofOfStake, target.nBits, nValueIn,
                              [made |-> TRUE, nValueIn |-> target.nValueIn,
                               res |-> target.res])
    /\ UNCHANGED <<chainVars, stakeVars, kernelVars>>

NextTarget == CheckKernel \/ CheckKernelAgain

SpecTarget == Init /\ [][NextTarget]_vars

\* C4: with the hash and the difficulty bits fixed, a check that passes for
\* a stake value passes for every larger stake value.
C4_MonotoneInValue ==
    (target.made /\ target.before.made /\ target.before.nValueIn <= target.nValueIn
        /\ target.before.res)
    => target.res

\* C5: the check returns true exactly when the hash is below the base target
\* multiplied by floor(value / 100), and fails for every value in 0 .. 99.
C5_TargetRule ==
    (target.made /\ target.fIndexFrom) =>
        /\ target.res <=>
            LessLimbs(target.hashProofOfStake,
                      MulExact(SetCompact(target.nBits),
                               FromUint64(target.nValueIn \div 100)),
                      WIDE)
        /\ target.nValueIn < 100 => ~target.res

----------------------------------------------------------------------------
(* initStakeInput and CheckProofOfStake, kernel.cpp:380-428 *)

\* what a read with undefined behaviour does in a build: the process
\* crashes, or the value read acts as false, or it acts as true
UndefinedReads == {"crashed", "false", "true"}

\* the entry std::map::operator[] creates for a key the map does not hold:
\* a null CBlockIndex*
NullIndex == [fNull |-> TRUE]

\* lines 267-301 with the hash of lines 303-326: the kernel of the stake is
\* hashed on the parent prev for the time nTimeTx and compared with the target
CheckStakeKernel(prev, nBits, stakeInput, nTimeTx) ==
    LET h == GetHashProofOfStake(prev, stakeInput, nTimeTx, Uint256Zero)
    IN  h.ok /\ CheckStakeKernelHash(h.hashProofOfStake, nBits, stakeInput.nValueIn)

\* the stake CDynamicStake::SetInput makes of the previous transaction
StakeInputOf(block) ==
    [fIndexFrom |-> block.fIndexFrom, nTimeBlockFrom |-> 30, ssUniqueID |-> <<1, 0, 0, 0>>,
     nValueIn |-> 100]

\* lines 381-382: block.vtx[1] is read without a look at vtx.size() and
\* IsCoinStake is called on it; "true": the transaction is a coinstake
SecondTransaction(block, ub) ==
    IF block.nTx >= 2 THEN (IF block.fCoinStake THEN "true" ELSE "false") ELSE ub.vtx

\* line 397: ptxPrev->vout[txin.prevout.n] is read without a look at
\* vout.size() and the script is verified against it
ScriptVerified(block, ub) ==
    IF block.fOutputExists THEN (IF block.fScriptOk THEN "true" ELSE "false") ELSE ub.vout

\* line 416: mapBlockIndex[block.hashPrevBlock]
IndexAfterLookup(index, hashPrevBlock) ==
    IF hashPrevBlock \in DOMAIN index THEN index
    ELSE [h \in DOMAIN index \cup {hashPrevBlock} |->
            IF h = hashPrevBlock THEN NullIndex ELSE index[h]]

\* pindexPrev of line 416 is not null
ParentIndexed(index, hashPrevBlock) ==
    hashPrevBlock \in DOMAIN index /\ index[hashPrevBlock] # NullIndex

\* line 423: CheckStakeKernelHash reads pindexPrev->nStakeModifierV2 (line
\* 313), of a null pindexPrev when hashPrevBlock was not indexed
KernelChecked(index, block, ub) ==
    IF ParentIndexed(index, block.hashPrevBlock)
    THEN IF CheckStakeKernel(index[block.hashPrevBlock], block.nBits, StakeInputOf(block),
                             block.nTime)
         THEN "true" ELSE "false"
    ELSE ub.prev

Outcome(ret, reason, stages, index) ==
    [ret |-> ret, reason |-> reason, stages |-> stages, index |-> index]

\* ret: "accepted" (true returned), "rejected" (false returned) or "crashed";
\* stages: the checks that were run, in order; index: mapBlockIndex afterwards
CheckProofOfStake(index, block, ub) ==
    IF SecondTransaction(block, ub) = "crashed"
    THEN Outcome("crashed", "Undefined", <<"coinstake">>, index)
    ELSE IF SecondTransaction(block, ub) = "false"
    THEN Outcome("rejected", "NotCoinstake", <<"coinstake">>, index)
    ELSE IF ~block.fPrevFound
    THEN Outcome("rejected", "PrevTxNotFound", <<"coinstake", "prevtx">>, index)
    ELSE IF ScriptVerified(block, ub) = "crashed"
    THEN Outcome("crashed", "Undefined", <<"coinstake", "prevtx", "script">>, index)
    ELSE IF ScriptVerified(block, ub) = "false"
    THEN Outcome("rejected", "BadSignature", <<"coinstake", "prevtx", "script">>, index)
    ELSE IF ~block.fIndexFrom
    THEN Outcome("rejected", "NoOriginIndex", <<"coinstake", "prevtx", "script", "origin">>,
                 IndexAfterLookup(index, block.hashPrevBlock))
    ELSE IF KernelChecked(index, block, ub) = "crashed"
    THEN Outcome("crashed", "Undefined",
                 <<"coinstake", "prevtx", "script", "origin", "kernel">>,
                 IndexAfterLookup(index, block.hashPrevBlock))
    ELSE IF KernelChecked(index, block, ub) = "false"
    THEN Outcome("rejected", "KernelTargetNotMet",
                 <<"coinstake", "prevtx", "script", "origin", "kernel">>,
                 IndexAfterLookup(index, block.hashPrevBlock))
    ELSE Outcome("accepted", "None",
                 <<"coinstake", "prevtx", "script", "origin", "kernel">>,
                 IndexAfterLookup(index, block.hashPrevBlock))

\* times of a candidate block
HeaderTimes == {100, 101}

\* candidate blocks: nTx transactions, the second one (if there is one) a
\* coinstake or not; the previous transaction of its first input found or not,
\* with or without the output prevout.n, the script verifying or not; the
\* origin block of the stake indexed or not; the parent the tip or a block
\* that is not indexed; nTime the time of the header, nTimeTx the time of the
\* coinstake transaction
CandidateBlocks ==
    [nTx : 0 .. 2, fCoinStake : BOOLEAN, fPrevFound : BOOLEAN, fOutputExists : BOOLEAN,
     fScriptOk : BOOLEAN, fIndexFrom : BOOLEAN,
     hashPrevBlock : {Tip} \cup {h \in Hashes : h = Len(chainActive) + 1},
     nTime : HeaderTimes, nTimeTx : HeaderTimes, nBits : {504365055}]

\* the undefined reads a call meets; those it does not meet are "false"
UndefinedChoices(block) ==
    [vtx : IF block.nTx >= 2 THEN {"false"} ELSE UndefinedReads,
     vout : IF block.fOutputExists THEN {"false"} ELSE UndefinedReads,
     prev : IF ParentIndexed(mapBlockIndex, block.hashPrevBlock) THEN {"false"}
            ELSE UndefinedReads]

\* the chain a block is validated on
AcceptBlockFirst ==
    /\ ~validation.made
    /\ Len(chainActive) <= ValidateHeight
    /\ \E nTime \in {30} : ConnectBlock(Len(chainActive) + 1, nTime)

\* a call of CheckProofOfStake for a candidate block on the tip
ValidateBlock ==
    /\ ~validation.made
    /\ Len(chainActive) >= 1
    /\ \E block \in CandidateBlocks : \E ub \in UndefinedChoices(block) :
        LET r == CheckProofOfStake(mapBlockIndex, block, ub)
        IN  /\ validation' = [made |-> TRUE, block |-> block, ret |-> r.ret,
                              reason |-> r.reason, stages |-> r.stages, calls |-> 1,
                              first |-> r.ret]
            /\ mapBlockIndex' = r.index
    /\ UNCHANGED <<chainActive, pszStakeModifier, call, hashSalt, target, stakeVars, lookup,
                   proof, checkpointVars, auxVars>>

\* the same block is validated once more, the chain being as the first call
\* left it
ValidateBlockAgain ==
    /\ validation.made
    /\ validation.calls = 1
    /\ \E ub \in UndefinedChoices(validation.block) :
        LET r == CheckProofOfStake(mapBlockIndex, validation.block, ub)
        IN  /\ validation' = [validation EXCEPT !.ret = r.ret, !.reason = r.reason,
                                                !.stages = r.stages, !.calls = 2]
            /\ mapBlockIndex' = r.index
    /\ UNCHANGED <<chainActive, pszStakeModifier, call, hashSalt, target, stakeVars, lookup,
                   proof, checkpointVars, auxVars>>

NextValidate == AcceptBlockFirst \/ ValidateBlock \/ ValidateBlockAgain

SpecValidate == Init /\ [][NextValidate]_vars

----------------------------------------------------------------------------
(* CheckCoinStakeTimestamp, kernel.cpp:431-435 *)

CheckCoinStakeTimestamp(nTimeBlock, nTimeTx) == nTimeBlock = nTimeTx

----------------------------------------------------------------------------
(* CheckStakeModifierCheckpoints, kernel.cpp:438-445 *)

\* CBaseChainParams::MAIN
MAIN == "main"

\* values of Params().NetworkIDString()
NetworkIDs == {MAIN, "test", "regtest"}

CheckpointedNetwork_Every(network) == TRUE

\* line 440: only the main network has checkpoints
CheckpointedNetwork(network) == ~(network # MAIN)

\* ret: the value returned; table: mapStakeModifierCheckpoints afterwards
\* (operator[] of line 442 is reached for keys the map holds only)
CheckStakeModifierCheckpoints(table, network, nHeight, nStakeModifierChecksum) ==
    IF ~CheckpointedNetwork(network)
    THEN [ret |-> TRUE, table |-> table]
    ELSE IF nHeight \in DOMAIN table
    THEN [ret |-> nStakeModifierChecksum = table[nHeight], table |-> table]
    ELSE [ret |-> TRUE, table |-> table]

\* heights asked for
CheckpointHeights == {-1, 0, 1}

\* checksums asked for: the one of the table at height 0, one that differs
\* from it in the lowest bit, and zero
Checksums ==
    {Uint32Bytes(231, 244, 17, 253), Uint32Bytes(230, 244, 17, 253), Uint32Bytes(0, 0, 0, 0)}

\* the arguments and the result of the last call
LastCheckpointCall(c) ==
    IF c.made
    THEN [made |-> TRUE, network |-> c.network, nHeight |-> c.nHeight,
          nStakeModifierChecksum |-> c.nStakeModifierChecksum, ret |-> c.ret]
    ELSE NoCheckpoint

\* a call of CheckStakeModifierCheckpoints
CheckCheckpoints ==
    /\ \E network \in NetworkIDs, nHeight \in CheckpointHeights,
          nStakeModifierChecksum \in Checksums :
        LET r == CheckStakeModifierCheckpoints(mapStakeModifierCheckpoints, network, nHeight,
                                               nStakeModifierChecksum)
        IN  /\ checkpoint' = [made |-> TRUE, network |-> network, nHeight |-> nHeight,
                              nStakeModifierChecksum |-> nStakeModifierChecksum,
                              ret |-> r.ret, before |-> LastCheckpointCall(checkpoint)]
            /\ mapStakeModifierCheckpoints' = r.table
    /\ UNCHANGED <<chainVars, target, stakeVars, lookup, proof, validation, auxVars>>

NextCheckpoint == CheckCheckpoints

SpecCheckpoint == Init /\ [][NextCheckpoint]_vars

----------------------------------------------------------------------------
(* CHashTableSession::SubmitPut, src/unnamed/part_001:381-437 *)

\* seconds a record stays locked after a put (dht/session.h)
DHT_RECORD_LOCK_SECONDS == 2

\* GetTime() when the session is constructed
SessionEpoch == 10

\* the record keys (public key, operation code) put under SpecPut
RecordKeys == {<<1, 1>>, <<1, 2>>}

\* record.GetChunks().size() of the records put
ChunkCounts == {0, 2}

\* nPutRecords of a new session (the member is initialised in dht/session.h)
InitialPutRecords == {0, 29}

\* the start of strPutErrorMessage of a rejected put
RecordLocked == "Record is locked"

\* lines 394-404: the time of the last put of the key the map holds, or 0
GetLastPutDate(mPutCommands, recordKey) ==
    IF recordKey \in DOMAIN mPutCommands THEN mPutCommands[recordKey] ELSE 0

PutThrottled_Strict(nTime, nLastUpdate) == DHT_RECORD_LOCK_SECONDS > (nTime - nLastUpdate)

\* line 410: DHT_RECORD_LOCK_SECONDS >= (GetTime() - nLastUpdate)
PutThrottled(nTime, nLastUpdate) == DHT_RECORD_LOCK_SECONDS >= (nTime - nLastUpdate)

\* line 386: the entry is older than the lock
PutExpired(nCurrentTime, nPutTime) == nCurrentTime > nPutTime + DHT_RECORD_LOCK_SECONDS

\* lines 381-392. Without an expired entry the loop erases nothing. With
\* one, the first erase invalidates the iterator: the loop goes on to the
\* next entries, ends, or the process crashes.
CleanUpPutCommandMap(mPutCommands, nCurrentTime, outcome) ==
    LET expired == {k \in DOMAIN mPutCommands : PutExpired(nCurrentTime, mPutCommands[k])}
    IN  IF expired = {}
        THEN [crashed |-> FALSE, map |-> mPutCommands]
        ELSE
            LET first == CHOOSE k \in expired : \A j \in expired : ~PairLess(j, k)
                erased == IF outcome = "stopped" THEN {first} ELSE expired
            IN  [crashed |-> outcome = "crashed",
                 map |-> [k \in DOMAIN mPutCommands \ erased |-> mPutCommands[k]]]

\* what the loop of lines 384-390 does in a put: after the first erase the
\* iterator it increments is the erased one
CleanUpChoices(mPutCommands, nCurrentTime) ==
    IF \E k \in DOMAIN mPutCommands : PutExpired(nCurrentTime, mPutCommands[k])
    THEN {"crashed", "continued", "stopped"}
    ELSE {"continued"}

\* the session is constructed
CreateSession ==
    /\ ~putSession.created
    /\ \E nPutRecords \in InitialPutRecords :
        putSession' = [NoSession EXCEPT !.created = TRUE, !.now = SessionEpoch,
                                        !.nPutRecords = nPutRecords]
    /\ UNCHANGED <<chainVars, target, stakeVars, lookup, proof, validation, checkpointVars,
                   lastModifier, schedule, selectVars, dhtNetwork, dhtBootstrap>>

\* a second passes
ClockTick ==
    /\ putSession.created
    /\ ~putSession.crashed
    /\ putSession.now < MaxClock
    /\ putSession' = [putSession EXCEPT !.now = putSession.now + 1]
    /\ UNCHANGED <<chainVars, target, stakeVars, lookup, proof, validation, checkpointVars,
                   lastModifier, schedule, selectVars, dhtNetwork, dhtBootstrap>>

\* lines 406-437: SubmitPut of a record of nChunks chunks under recordKey.
\* call: the key, the outcome and the number of dht_put_item calls of this
\* put; accepted: the time of the last accepted put of every key.
SubmitPut ==
    /\ putSession.created
    /\ ~putSession.crashed
    /\ \E recordKey \in RecordKeys, nChunks \in ChunkCounts :
        LET nTime == putSession.now
            nLastUpdate == GetLastPutDate(putSession.mPutCommands, recordKey)
            flip == ~putSession.call.flip
        IN  IF PutThrottled(nTime, nLastUpdate)
            THEN putSession' =
                    [putSession EXCEPT
                        !.strPutErrorMessage = RecordLocked,
                        !.call = [flip |-> flip, recordKey |-> recordKey,
                                  nChunks |-> nChunks, ret |-> "false", nPutItems |-> 0]]
            ELSE
                LET written == [k \in DOMAIN putSession.mPutCommands \cup {recordKey} |->
                                    IF k = recordKey THEN nTime
                                    ELSE putSession.mPutCommands[k]]
                    nPutRecords == putSession.nPutRecords + 1
                IN  \E outcome \in IF nPutRecords % 32 = 0
                                    THEN CleanUpChoices(written, nTime)
                                    ELSE {"continued"} :
                        LET cleaned == IF nPutRecords % 32 = 0
                                       THEN CleanUpPutCommandMap(written, nTime, outcome)
                                       ELSE [crashed |-> FALSE, map |-> written]
                        IN  putSession' =
                                [putSession EXCEPT
                                    !.strPutErrorMessage = "",
                                    !.mPutCommands = cleaned.map,
                                    !.vDataEntries = putSession.vDataEntries + 1,
                                    !.nPutRecords = nPutRecords,
                                    !.crashed = cleaned.crashed,
                                    !.accepted =
                                        [k \in DOMAIN putSession.accepted \cup {recordKey} |->
                                            IF k = recordKey THEN nTime
                                            ELSE putSession.accepted[k]],
                                    !.call = [flip |-> flip, recordKey |-> recordKey,
                                              nChunks |-> nChunks,
                                              ret |-> IF cleaned.crashed THEN "crashed"
                                                      ELSE "true",
                                              nPutItems |-> 1 + nChunks]]
    /\ UNCHANGED <<chainVars, target, stakeVars, lookup, proof, validation, checkpointVars,
                   lastModifier, schedule, selectVars, dhtNetwork, dhtBootstrap>>

NextPut == CreateSession \/ ClockTick \/ SubmitPut

SpecPut == Init /\ [][NextPut]_vars

----------------------------------------------------------------------------
(* StartTorrentDHTNetwork, StopTorrentDHTNetwork and DHTTorrentNetwork,
   src/unnamed/part_001:163-166, 271-347 *)

\* line 346: the thread is created and StartTorrentDHTNetwork returns
NewThread(net) ==
    [net EXCEPT !.workers = Append(net.workers, "waiting"),
                !.pDHTTorrentThread = Len(net.workers) + 1,
                !.pc = "idle",
                !.nReturns = net.nReturns + 1]

\* lines 314-316: fShutdown = true; StopEventListener()
StopBegin(net) == [net EXCEPT !.fShutdown = TRUE, !.listening = FALSE]

\* lines 318-328 up to the join: the session is aborted when fStarted
StopAbort(net) == [net EXCEPT !.aborted = net.aborted \/ net.fStarted, !.pc = "join"]

\* line 334
StopEnd(net) == [net EXCEPT !.pDHTTorrentThread = NullThread, !.pc = "idle"]

\* lines 341-346 up to the join of StopTorrentDHTNetwork, or to the return
StartTorrentDHTNetwork ==
    /\ dhtNetwork.pc = "idle"
    /\ dhtNetwork.nStarts < MaxStarts
    /\ LET entered == [dhtNetwork EXCEPT !.fShutdown = FALSE, !.fStarted = FALSE,
                                         !.inCall = "start",
                                         !.nStarts = dhtNetwork.nStarts + 1]
       IN  dhtNetwork' =
                IF entered.pDHTTorrentThread # NullThread
                THEN StopAbort(StopBegin(entered))
                ELSE NewThread(entered)
    /\ UNCHANGED <<chainVars, target, stakeVars, lookup, proof, validation, checkpointVars,
                   lastModifier, schedule, selectVars, putSession, dhtBootstrap>>

\* lines 311-334 up to the join, or to the return when there is no thread
StopTorrentDHTNetwork ==
    /\ dhtNetwork.pc = "idle"
    /\ LET entered == StopBegin([dhtNetwork EXCEPT !.inCall = "stop"])
       IN  dhtNetwork' =
                IF entered.pDHTTorrentThread # NullThread
                THEN StopAbort(entered)
                ELSE StopEnd(entered)
    /\ UNCHANGED <<chainVars, target, stakeVars, lookup, proof, validation, checkpointVars,
                   lastModifier, schedule, selectVars, putSession, dhtBootstrap>>

\* line 328 returns once the thread has returned; then line 334, and line 346
\* when StopTorrentDHTNetwork was called by StartTorrentDHTNetwork
JoinThread ==
    /\ dhtNetwork.pc = "join"
    /\ dhtNetwork.workers[dhtNetwork.pDHTTorrentThread] = "returned"
    /\ LET joined == StopEnd([dhtNetwork EXCEPT
                            !.workers[dhtNetwork.pDHTTorrentThread] = "joined"])
       IN  dhtNetwork' = IF joined.inCall = "start" THEN NewThread(joined) ELSE joined
    /\ UNCHANGED <<chainVars, target, stakeVars, lookup, proof, validation, checkpointVars,
                   lastModifier, schedule, selectVars, putSession, dhtBootstrap>>

\* lines 280-288: a round of the wait of worker w: the network is up and the
\* loop is left, or after the sleep the thread returns when fShutdown is set
WorkerWait ==
    /\ \E w \in DOMAIN dhtNetwork.workers : \E fOnline \in BOOLEAN :
        /\ dhtNetwork.workers[w] = "waiting"
        /\ fOnline \/ dhtNetwork.fShutdown
        /\ dhtNetwork' = [dhtNetwork EXCEPT
                !.workers[w] = IF fOnline THEN "starting" ELSE "returned"]
    /\ UNCHANGED <<chainVars, target, stakeVars, lookup, proof, validation, checkpointVars,
                   lastModifier, schedule, selectVars, putSession, dhtBootstrap>>

\* lines 292-308: fStarted = true; then the session is there and the event
\* listener is started, or it is not, and the handler sets fShutdown
WorkerStart ==
    /\ \E w \in DOMAIN dhtNetwork.workers : \E fSession \in BOOLEAN :
        /\ dhtNetwork.workers[w] = "starting"
        /\ dhtNetwork' = [dhtNetwork EXCEPT
                !.workers[w] = "returned",
                !.fStarted = TRUE,
                !.listening = dhtNetwork.listening \/ fSession,
                !.fShutdown = dhtNetwork.fShutdown \/ ~fSession]
    /\ UNCHANGED <<chainVars, target, stakeVars, lookup, proof, validation, checkpointVars,
                   lastModifier, schedule, selectVars, putSession, dhtBootstrap>>

NextNetwork ==
    \/ StartTorrentDHTNetwork
    \/ StopTorrentDHTNetwork
    \/ JoinThread
    \/ WorkerWait
    \/ WorkerStart

SpecNetwork == Init /\ [][NextNetwork]_vars

----------------------------------------------------------------------------
(* wait_for_alert and its callers, src/src/dht/bootstrap.cpp:35-72, 183-328 *)

\* the types of the alerts of the session
AlertTypes == {"dht_mutable_item_alert", "dht_put_alert", "dht_bootstrap_alert"}

\* lines 240, 250 and 319: the type each caller waits for
WaitedType(caller) ==
    IF caller = "GetDHTMutableData" THEN "dht_mutable_item_alert" ELSE "dht_put_alert"

\* the batches pop_alerts can give: up to MaxAlerts alerts, none after a
\* wait of 5 seconds without an alert
RECURSIVE AlertBatches(_)
AlertBatches(n) ==
    IF n = 0 THEN {<<>>}
    ELSE AlertBatches(n - 1)
            \cup {Append(b, t) : b \in {a \in AlertBatches(n - 1) : Len(a) = n - 1},
                                 t \in AlertTypes}

\* lines 46-67: the loop over a batch sets ret to every alert of the type and
\* does not leave the loop: the last one stays
RECURSIVE ScanAlerts(_, _, _, _)
ScanAlerts(alerts, i, alert_type, ret) ==
    IF i > Len(alerts) THEN ret
    ELSE ScanAlerts(alerts, i + 1, alert_type,
            IF alerts[i] # alert_type THEN ret ELSE [type |-> alerts[i], at |-> i])

\* bootstrap.cpp lines 183-197: the thread is interrupted and deleted, not joined
BootstrapStop(b) == [b EXCEPT !.fShutdown = TRUE, !.dhtTorrentThread = NullThread]

\* bootstrap.cpp lines 199-207
BootstrapStartTorrentDHTNetwork ==
    /\ dhtBootstrap.nThreads < MaxThreads
    /\ LET entered == [dhtBootstrap EXCEPT !.fShutdown = FALSE]
           stopped == IF entered.dhtTorrentThread # NullThread
                      THEN BootstrapStop(entered) ELSE entered
       IN  dhtBootstrap' = [stopped EXCEPT !.nThreads = stopped.nThreads + 1,
                                           !.dhtTorrentThread = stopped.nThreads + 1]
    /\ UNCHANGED <<chainVars, target, stakeVars, lookup, proof, validation, checkpointVars,
                   lastModifier, schedule, selectVars, putSession, dhtNetwork>>

\* bootstrap.cpp lines 183-197
BootstrapStopTorrentDHTNetwork ==
    /\ ~dhtBootstrap.fShutdown \/ dhtBootstrap.dhtTorrentThread # NullThread
    /\ dhtBootstrap' = BootstrapStop(dhtBootstrap)
    /\ UNCHANGED <<chainVars, target, stakeVars, lookup, proof, validation, checkpointVars,
                   lastModifier, schedule, selectVars, putSession, dhtNetwork>>

\* lines 236-240, 250 and 314-319: a caller with a session has sent its
\* request and enters wait_for_alert (lines 38-39)
CallWaitForAlert ==
    /\ dhtBootstrap.pc = "idle"
    /\ \E caller \in {"GetDHTMutableData", "PutDHTMutableData"} :
        dhtBootstrap' = [dhtBootstrap EXCEPT
            !.pc = "waiting", !.caller = caller, !.alert_type = WaitedType(caller),
            !.ret = NullAlert, !.nPolls = 0, !.read = "none"]
    /\ UNCHANGED <<chainVars, target, stakeVars, lookup, proof, validation, checkpointVars,
                   lastModifier, schedule, selectVars, putSession, dhtNetwork>>

\* lines 40-70: a round of the loop: a batch is popped and scanned; the
\* function returns ret when an alert of the type was found, and also,
\* whatever ret holds, when fShutdown is set
WaitForAlertRound ==
    /\ dhtBootstrap.pc = "waiting"
    /\ \E alerts \in AlertBatches(MaxAlerts) :
        LET ret == ScanAlerts(alerts, 1, dhtBootstrap.alert_type, dhtBootstrap.ret)
            found == ret # NullAlert
        IN  /\ found \/ dhtBootstrap.fShutdown \/ dhtBootstrap.nPolls < MaxPolls
            /\ dhtBootstrap' = [dhtBootstrap EXCEPT
                    !.ret = ret,
                    !.nPolls = dhtBootstrap.nPolls + 1,
                    !.pc = IF found \/ dhtBootstrap.fShutdown THEN "returned" ELSE "waiting"]
    /\ UNCHANGED <<chainVars, target, stakeVars, lookup, proof, validation, checkpointVars,
                   lastModifier, schedule, selectVars, putSession, dhtNetwork>>

\* lines 242-245, 251-254 and 320-324: the caller casts the alert and reads
\* its members, without a test for null; the read of a null alert crashes or
\* gives garbage
ReadAlert ==
    /\ dhtBootstrap.pc = "returned"
    /\ \E outcome \in IF dhtBootstrap.ret = NullAlert THEN {"crashed", "garbage"}
                        ELSE {dhtBootstrap.ret.type} :
        dhtBootstrap' = [dhtBootstrap EXCEPT
            !.read = outcome,
            !.pc = IF outcome = "crashed" THEN "crashed" ELSE "idle"]
    /\ UNCHANGED <<chainVars, target, stakeVars, lookup, proof, validation, checkpointVars,
                   lastModifier, schedule, selectVars, putSession, dhtNetwork>>

NextAlert ==
    \/ BootstrapStartTorrentDHTNetwork
    \/ BootstrapStopTorrentDHTNetwork
    \/ CallWaitForAlert
    \/ WaitForAlertRound
    \/ ReadAlert

SpecAlert == Init /\ [][NextAlert]_vars

----------------------------------------------------------------------------
(* Stake, kernel.cpp:328-378 *)

\* unsigned int arithmetic wraps at UintMod
UintMod == Pow2(UintBits)

\* line 351
nHashDrift == 60

\* values of nTimeTx at entry
StartTimes == {0, 1000, UintMod - 61, UintMod - 60}

\* values of Params().MaxFutureBlockTime(GetAdjustedTime(), true)
MaxFutureTimes == {999, 1010, 1060, UintMod - 1}

\* values of GetTime()
ClockTimes == {1000}

\* the difficulty bits and the stake value of the searched kernel: 0x1e0fffff, weight 1
SearchKernel == [nBits |-> 504365055, nValueIn |-> 100]

\* hashes GetHashProofOfStake may produce for a candidate time
SearchHashes == {Uint256Zero, [k \in 1 .. WIDTH |-> 255]}

\* the hashes of SearchHashes that pass CheckStakeKernelHash for the searched kernel
PassingHashes ==
    {hash \in SearchHashes :
        CheckStakeKernelHash(hash, SearchKernel.nBits, SearchKernel.nValueIn)}

SearchContinues_Inclusive(nTryTime, maxTime) == nTryTime <= maxTime

\* line 357: the loop condition
SearchContinues(nTryTime, maxTime) == nTryTime < maxTime

TipMoved_Higher(height, prevHeight) == height > prevHeight

TipMoved_Ignored(height, prevHeight) == FALSE

\* line 360: a new block came in
TipMoved(height, prevHeight) == height # prevHeight

\* stakeInput->GetIndexFrom() returns null
NoOrigin == -1

\* heights of the stake's origin block, NoOrigin when there is none
OriginHeights == {NoOrigin, 0, 1}

OriginUsable_AtGenesis(nHeightFrom) == ~(nHeightFrom = NoOrigin \/ nHeightFrom < 0)

\* line 334: the stake has an origin block at height >= 1
OriginUsable(nHeightFrom) == ~(nHeightFrom = NoOrigin \/ nHeightFrom < 1)

FirstTryTime_Next(nTimeTx) == nTimeTx

\* line 352: nTryTime = nTimeTx - 1 on unsigned int
FirstTryTime(nTimeTx) == (nTimeTx + UintMod - 1) % UintMod

FoundTime_Kept(nTimeTx, nTryTime) == nTimeTx

\* line 371: nTimeTx = nTryTime
FoundTime(nTimeTx, nTryTime) == nTryTime

SearchLimit_FutureOnly(nTimeTx, maxFuture) == maxFuture

\* line 355: maxTime = std::min(nTimeTx + nHashDrift, MaxFutureBlockTime(...))
\* on unsigned int
SearchLimit(nTimeTx, maxFuture) == Min((nTimeTx + nHashDrift) % UintMod, maxFuture)

RecordHashed_NoClear(map, nHeight, now) ==
    [h \in DOMAIN map \cup {nHeight} |-> IF h = nHeight THEN now ELSE map[h]]

\* lines 375-376: mapHashedBlocks.clear(); mapHashedBlocks[nHeight] = now
RecordHashed(map, nHeight, now) == [h \in {nHeight} |-> now]

\* nothing written to mapHashedBlocks by the running call
NotRecorded == <<>>

\* History kept with the frame: tried and proofs, the candidate times hashed
\* and their hashes; observed, the heights read by the tip checks that did
\* not end the search; sawChange, a tip check ended the search; enteredOnPrev,
\* the tip was at the height of pindexPrev at entry.

\* lines 330-355: the preconditions and the locals of the search.
\* nHeightFrom: the height of the stake's origin block; fMinAgeOrDepth:
\* HasStakeMinAgeOrDepth holds; fMinAge: nStakeMinAge is not above the age.
StakeEnter ==
    /\ stake.pc = "idle"
    /\ \E prevHeight \in 0 .. MaxTip, nTimeTx \in StartTimes, maxFuture \in MaxFutureTimes,
          nHeightFrom \in OriginHeights, fMinAgeOrDepth \in BOOLEAN, fMinAge \in BOOLEAN :
        LET frame == [pc |-> "loop", prevHeight |-> prevHeight, nTimeTx0 |-> nTimeTx,
                      nTimeTx |-> nTimeTx, maxFuture |-> maxFuture,
                      nTryTime |-> FirstTryTime(nTimeTx),
                      maxTime |-> SearchLimit(nTimeTx, maxFuture),
                      fSuccess |-> FALSE, hashProofOfStake |-> Uint256Zero,
                      hashed |-> {}, tipChanged |-> FALSE, sawChange |-> FALSE,
                      passed |-> TRUE, ret |-> FALSE,
                      nHeightFrom |-> nHeightFrom, fMinAgeOrDepth |-> fMinAgeOrDepth,
                      fMinAge |-> fMinAge, tried |-> <<>>, proofs |-> <<>>,
                      observed |-> <<>>,
                      enteredOnPrev |-> (tipHeight = prevHeight),
                      recorded |-> NotRecorded]
        IN  IF OriginUsable(nHeightFrom) /\ fMinAgeOrDepth /\ fMinAge
            THEN stake' = frame
            ELSE stake' = [frame EXCEPT !.pc = "done", !.passed = FALSE]
    /\ UNCHANGED <<chainVars, target, tipHeight, mapHashedBlocks, kernelVars>>

\* lines 357-361: the loop condition and the check of the tip height
StakeCheckTip ==
    /\ stake.pc = "loop"
    /\ IF ~SearchContinues(stake.nTryTime, stake.maxTime)
       THEN stake' = [stake EXCEPT !.pc = "exit"]
       ELSE IF TipMoved(tipHeight, stake.prevHeight)
       THEN stake' = [stake EXCEPT !.pc = "exit", !.sawChange = TRUE]
       ELSE stake' = [stake EXCEPT !.pc = "hash",
                         !.sawChange = stake.sawChange \/ tipHeight # stake.prevHeight,
                         !.observed = Append(stake.observed, tipHeight)]
    /\ UNCHANGED <<chainVars, target, tipHeight, mapHashedBlocks, kernelVars>>

\* lines 363-372: the next candidate time is hashed and checked
StakeHash ==
    /\ stake.pc = "hash"
    /\ \E hash \in SearchHashes :
        LET nTryTime == (stake.nTryTime + 1) % UintMod
        IN  IF hash \in PassingHashes
            THEN stake' = [stake EXCEPT !.pc = "exit", !.nTryTime = nTryTime,
                              !.hashProofOfStake = hash,
                              !.hashed = stake.hashed \cup {nTryTime},
                              !.tried = Append(stake.tried, <<nTryTime, TRUE>>),
                              !.proofs = Append(stake.proofs, hash),
                              !.fSuccess = TRUE,
                              !.nTimeTx = FoundTime(stake.nTimeTx, nTryTime)]
            ELSE stake' = [stake EXCEPT !.pc = "loop", !.nTryTime = nTryTime,
                              !.hashProofOfStake = hash,
                              !.hashed = stake.hashed \cup {nTryTime},
                              !.tried = Append(stake.tried, <<nTryTime, FALSE>>),
                              !.proofs = Append(stake.proofs, hash)]
    /\ UNCHANGED <<chainVars, target, tipHeight, mapHashedBlocks, kernelVars>>

\* lines 375-377: the map of hashed blocks is cleared and written, fSuccess returned
StakeExit ==
    /\ stake.pc = "exit"
    /\ \E now \in ClockTimes :
        /\ mapHashedBlocks' = RecordHashed(mapHashedBlocks, tipHeight, now)
        /\ stake' = [stake EXCEPT !.pc = "done", !.ret = stake.fSuccess,
                                  !.recorded = <<tipHeight, now>>]
    /\ UNCHANGED <<chainVars, target, tipHeight, kernelVars>>

\* the caller has the result; Stake can be called again
StakeReturn ==
    /\ stake.pc = "done"
    /\ stake' = NoStake
    /\ UNCHANGED <<chainVars, target, tipHeight, mapHashedBlocks, kernelVars>>

\* the chain writer connects or disconnects a block
TipChange ==
    /\ \E height \in {tipHeight - 1, tipHeight + 1} :
        /\ height \in 0 .. MaxTip
        /\ tipHeight' = height
        /\ IF stake.pc \in {"loop", "hash"} /\ height # stake.prevHeight
           THEN stake' = [stake EXCEPT !.tipChanged = TRUE]
           ELSE UNCHANGED stake
    /\ UNCHANGED <<chainVars, target, mapHashedBlocks, kernelVars>>

NextStake ==
    StakeEnter \/ StakeCheckTip \/ StakeHash \/ StakeExit \/ StakeReturn \/ TipChange

SpecStake == Init /\ [][NextStake]_vars

\* one call of Stake against the chain writer
NextStakeLive ==
    StakeEnter \/ StakeCheckTip \/ StakeHash \/ StakeExit \/ TipChange

\* Stake reads neither the string literal nor the hash of the modifier
\* computation: one process and one hash function
InitStakeLive ==
    /\ Init
    /\ pszStakeModifier = 4202496
    /\ hashSalt = 0

\* the thread in Stake runs on: a statement that can be executed is executed
SpecStakeLive ==
    /\ InitStakeLive
    /\ [][NextStakeLive]_vars
    /\ WF_vars(StakeCheckTip)
    /\ WF_vars(StakeHash)
    /\ WF_vars(StakeExit)

Entered == stake.pc # "idle"

\* the last candidate time of the window, as a natural number
WindowEnd == Min(stake.nTimeTx0 + nHashDrift, stake.maxFuture)

\* C2: when Stake returns success the found time lies in
\* [start_time, min(start_time + 60, max_future_drift)], and no candidate
\* time outside that range is ever hashed.
C2_FoundTimeInWindow ==
    Entered =>
        /\ \A t \in stake.hashed : stake.nTimeTx0 <= t /\ t <= WindowEnd
        /\ (stake.pc = "done" /\ stake.ret) =>
            /\ stake.nTimeTx0 <= stake.nTimeTx
            /\ stake.nTimeTx <= WindowEnd
            /\ stake.nTimeTx \in stake.hashed

\* the search succeeded on the last candidate time of a window cut by the drift bound
C2_Witness ==
    /\ Entered
    /\ stake.pc = "done"
    /\ stake.ret
    /\ stake.nTimeTx = stake.maxFuture
    /\ stake.nTimeTx > stake.nTimeTx0

\* C3 as stated: if the tip height becomes different from prev.height at any
\* point while Stake is searching, Stake returns no result and reports no
\* found time.
C3_AnyTipChangeAborts ==
    (Entered /\ stake.pc = "done" /\ stake.tipChanged) =>
        ~stake.ret /\ stake.nTimeTx = stake.nTimeTx0

\* C3 amended: if the tip height is different from prev.height when the
\* search loop checks it (once before each candidate time), Stake returns no
\* result and reports no found time.
C3_ObservedTipChangeAborts ==
    (Entered /\ stake.pc \in {"exit", "done"} /\ stake.sawChange) =>
        ~stake.fSuccess /\ ~stake.ret /\ stake.nTimeTx = stake.nTimeTx0

\* a search that had hashed candidates was aborted by a tip check after the tip moved
C3_Witness ==
    /\ Entered
    /\ stake.pc = "done"
    /\ stake.sawChange
    /\ stake.tipChanged
    /\ stake.hashed # {}
    /\ ~stake.ret

----------------------------------------------------------------------------
(* Properties of the grown chain *)

\* the block of the active chain at height h
BlockAt(h) == mapBlockIndex[chainActive[h + 1]]

TopHeight == Len(chainActive) - 1

\* the modifier interval a time falls in
Bucket(nTime) == nTime \div MODIFIER_INTERVAL

\* height of the nearest block with generated = true at or below height h
NearestGenerating(h) ==
    CHOOSE k \in 0 .. h :
        /\ BlockAt(k).fGeneratedStakeModifier
        /\ \A j \in (k + 1) .. h : ~BlockAt(j).fGeneratedStakeModifier

HasGenerating(h) == \E k \in 0 .. h : BlockAt(k).fGeneratedStakeModifier

\* what a call of ComputeNextStakeModifier on the parent of block b returns now
RunAgain(b) ==
    ComputeNextStakeModifier(mapBlockIndex, mapBlockIndex[b].pprev, pszStakeModifier)

\* C1: ComputeNextStakeModifier is deterministic: a second run on the ancestor
\* chain a block was accepted on returns success, the modifier and the
\* generated flag the first run returned (the ones the block stores).
C1_Deterministic ==
    \A b \in DOMAIN mapBlockIndex :
        /\ RunAgain(b).ok
        /\ RunAgain(b).nStakeModifier = mapBlockIndex[b].nStakeModifier
        /\ RunAgain(b).fGeneratedStakeModifier = mapBlockIndex[b].fGeneratedStakeModifier

\* the last call had a parent at height >= 1
CallOnHeightAtLeastOne ==
    /\ call.made
    /\ call.pindexPrev # NullHash
    /\ mapBlockIndex[call.pindexPrev].nHeight >= 1

CallLastGenerating == BlockAt(NearestGenerating(mapBlockIndex[call.pindexPrev].nHeight))

CallReused ==
    /\ call.ret.ok
    /\ ~call.ret.fGeneratedStakeModifier
    /\ call.ret.nStakeModifier = CallLastGenerating.nStakeModifier

CallGenerated == call.ret.ok /\ call.ret.fGeneratedStakeModifier

\* C6 as stated: for a parent at height >= 1 the last modifier is reused
\* exactly when the generation time of the nearest generating ancestor and
\* the parent's time fall in the same interval, and a fresh one is generated
\* in every other case.
C6_ReuseIffSameBucket ==
    CallOnHeightAtLeastOne =>
        IF Bucket(CallLastGenerating.nTime) = Bucket(mapBlockIndex[call.pindexPrev].nTime)
        THEN CallReused
        ELSE CallGenerated

\* C6 amended: for a parent at height >= 1 the last modifier is reused exactly
\* when the interval of its generation time is the same as or later than the
\* interval of the parent's time, and a fresh one is generated in every other
\* case (the parent's interval is strictly later).
C6_ReuseIffNotOlder ==
    CallOnHeightAtLeastOne =>
        IF Bucket(CallLastGenerating.nTime) >= Bucket(mapBlockIndex[call.pindexPrev].nTime)
        THEN CallReused
        ELSE CallGenerated

\* a call reused the modifier of a generating ancestor whose interval is later
\* than the parent's
C6_Witness ==
    /\ CallOnHeightAtLeastOne
    /\ Bucket(CallLastGenerating.nTime) > Bucket(mapBlockIndex[call.pindexPrev].nTime)
    /\ CallReused

GeneratingHeights == {h \in 2 .. TopHeight : BlockAt(h).fGeneratedStakeModifier}

NonDecreasingTimes == \A h \in 1 .. TopHeight : BlockAt(h - 1).nTime <= BlockAt(h).nTime

BeforeFirstBoundary(h) ==
    \A k \in 1 .. (h - 1) : Bucket(BlockAt(k).nTime) = Bucket(BlockAt(1).nTime)

\* C8: every block at height h >= 1 such that the blocks at heights 1 .. h-1
\* have timestamps in the interval of block 1 carries the modifier assigned
\* to block 1 (whose parent is at height 0), the address-derived value of
\* lines 145-150, and only block 1 among them has generated = true.
C8_BootstrapBeforeBoundary ==
    \A h \in 1 .. TopHeight :
        BeforeFirstBoundary(h) =>
            /\ BlockAt(h).nStakeModifier = BlockAt(1).nStakeModifier
            /\ BlockAt(1).nStakeModifier \in StringLiteralAddrs
            /\ BlockAt(h).fGeneratedStakeModifier <=> (h = 1)

\* blocks 1 and 2 share an interval at different times and block 3 inherits
C8_Witness ==
    /\ TopHeight >= 3
    /\ BeforeFirstBoundary(3)
    /\ BlockAt(1).nTime # BlockAt(2).nTime
    /\ BlockAt(3).nStakeModifier = BlockAt(1).nStakeModifier

\* C9: with no parent the call succeeds with modifier 0 and generated = true;
\* with a parent at height 0 it succeeds with generated = true and with one
\* fixed constant, the one every block at height 1 stores; in both cases no
\* block's generated flag or modifier is read.
C9_GenesisAndBootstrap ==
    /\ LET r == ComputeNextStakeModifier(mapBlockIndex, NullHash, pszStakeModifier)
       IN  r.ok /\ r.nStakeModifier = 0 /\ r.fGeneratedStakeModifier /\ r.reads = {}
    /\ \A b \in DOMAIN mapBlockIndex :
        mapBlockIndex[b].nHeight = 1 =>
            /\ RunAgain(b).ok
            /\ RunAgain(b).fGeneratedStakeModifier
            /\ RunAgain(b).reads = {}
            /\ RunAgain(b).nStakeModifier = mapBlockIndex[b].nStakeModifier

\* C10: GetLastStakeModifier succeeds from every block of a grown chain, on a
\* block with generated = true, and no call of ComputeNextStakeModifier fails.
C10_LastModifierFound ==
    /\ \A b \in DOMAIN mapBlockIndex :
        LET last == GetLastStakeModifier(mapBlockIndex, b, 0, 0)
        IN  /\ last.ok
            /\ HasGenerating(mapBlockIndex[b].nHeight)
            /\ last.nModifierTime = BlockAt(NearestGenerating(mapBlockIndex[b].nHeight)).nTime
    /\ call.made => call.ret.ok

\* the walk from the tip passes two blocks that did not generate
C10_Witness ==
    /\ TopHeight >= 3
    /\ Cardinality(LastGeneratedReads(mapBlockIndex, Tip)) >= 3
    /\ GetLastStakeModifier(mapBlockIndex, Tip, 0, 0).ok

----------------------------------------------------------------------------
(* The entropy bits of a generated modifier *)

\* bit r of the number x
BitAt(x, r) == (x \div Pow2(r)) % 2

\* rounds of the last call: min(64, number of candidates)
CallRounds == Min(64, Len(call.ret.vSortedByTimestamp))

\* C11: when ComputeNextStakeModifier generates a fresh modifier over n
\* candidates with k = min(64, n) rounds, bit r of the result is the entropy
\* bit of the block selected in round r for every r < k, and every bit at
\* position >= k is 0 (so no round changed the bit of another round).
C11_EntropyBitPacking ==
    (CallOnHeightAtLeastOne /\ CallGenerated) =>
        /\ Len(call.ret.selected) = CallRounds
        /\ \A r \in 0 .. (CallRounds - 1) :
            BitAt(call.ret.nStakeModifier, r)
                = GetStakeEntropyBit(call.ret.selected[r + 1].pindex)
        /\ call.ret.nStakeModifier < Pow2(CallRounds)

\* a modifier generated over four candidates or more, a round above round 0
\* writing a 1 and a later round writing a 0
C11_Witness ==
    /\ CallOnHeightAtLeastOne
    /\ CallGenerated
    /\ CallRounds >= 4
    /\ \E r1 \in 1 .. (CallRounds - 1) : \E r2 \in (r1 + 1) .. (CallRounds - 1) :
        /\ GetStakeEntropyBit(call.ret.selected[r1 + 1].pindex) = 1
        /\ GetStakeEntropyBit(call.ret.selected[r2 + 1].pindex) = 0

----------------------------------------------------------------------------
(* The v2 modifier *)

\* kernels ComputeStakeModifier is called with
Kernels == {Uint256Zero, Limb(WIDTH, 254)}

\* the block index with one field of block b, not its v2 modifier, replaced
Perturbations(b) ==
    {[mapBlockIndex EXCEPT ![b].nStakeModifier = @ + 1],
     [mapBlockIndex EXCEPT ![b].fGeneratedStakeModifier = ~@],
     [mapBlockIndex EXCEPT ![b].nTime = @ + MODIFIER_INTERVAL],
     [mapBlockIndex EXCEPT ![b].nHeight = @ + 1]}

\* C12: ComputeStakeModifier returns the zero hash when there is no parent
\* and otherwise the hash of (kernel, prev.nStakeModifierV2); the result does
\* not change when the parent's legacy modifier, generated flag, time or
\* height changes; every block stores the v2 modifier computed from its
\* direct parent, whether or not it generated a legacy modifier.
C12_ModifierV2 ==
    /\ \A kernel \in Kernels :
        ComputeStakeModifier(mapBlockIndex, NullHash, kernel) = Uint256Zero
    /\ Tip # NullHash =>
        /\ \A kernel \in Kernels :
            /\ ComputeStakeModifier(mapBlockIndex, Tip, kernel)
                = HashBytes(kernel \o mapBlockIndex[Tip].nStakeModifierV2)
            /\ \A index \in Perturbations(Tip) :
                ComputeStakeModifier(index, Tip, kernel)
                    = ComputeStakeModifier(mapBlockIndex, Tip, kernel)
        /\ mapBlockIndex[Tip].nStakeModifierV2
            = ComputeStakeModifier(mapBlockIndex, mapBlockIndex[Tip].pprev, KernelOf(Tip))

\* a block that reused the legacy modifier of its parent carries a v2
\* modifier of its own, different from its parent's
C12_Witness ==
    /\ TopHeight >= 2
    /\ ~BlockAt(TopHeight).fGeneratedStakeModifier
    /\ BlockAt(TopHeight).nStakeModifier = BlockAt(TopHeight - 1).nStakeModifier
    /\ BlockAt(TopHeight).nStakeModifierV2 # BlockAt(TopHeight - 1).nStakeModifierV2
    /\ BlockAt(TopHeight).nStakeModifierV2 # Uint256Zero

----------------------------------------------------------------------------
(* The modifier a kernel is hashed with *)

\* a lookup outside regtest for an indexed origin block
LookupWalked == lookup.made /\ lookup.hashBlockFrom \in DOMAIN mapBlockIndex /\ ~lookup.fRegTest

LookupFrom == mapBlockIndex[lookup.hashBlockFrom]

\* heights of the active chain above the origin's height whose block is
\* generating with a time of at least the origin's time + OLD_MODIFIER_INTERVAL
OldEnoughHeights ==
    {h \in (LookupFrom.nHeight + 1) .. TopHeight :
        /\ BlockAt(h).fGeneratedStakeModifier
        /\ BlockAt(h).nTime >= LookupFrom.nTime + OLD_MODIFIER_INTERVAL}

\* C13: outside regtest, when GetKernelStakeModifier succeeds for an indexed
\* origin block, the returned modifier, height and time are those of one block
\* B of the active chain above the origin's height, B is generating, B's time
\* is at least the origin's time + 2087, and no generating block of the active
\* chain strictly between the two heights has such a time.
C13_FirstOldEnoughModifier ==
    (LookupWalked /\ lookup.ret.ok) =>
        \E h \in (LookupFrom.nHeight + 1) .. TopHeight :
            /\ lookup.ret.nStakeModifier = BlockAt(h).nStakeModifier
            /\ lookup.ret.nStakeModifierHeight = h
            /\ lookup.ret.nStakeModifierTime = BlockAt(h).nTime
            /\ h \in OldEnoughHeights
            /\ \A j \in OldEnoughHeights : h <= j

\* a successful lookup that passed a generating block not old enough; and one
\* whose origin block is not on the active chain
C13_Witness ==
    /\ LookupWalked
    /\ lookup.ret.ok
    /\ lookup.ret.nStakeModifierTime = LookupFrom.nTime + OLD_MODIFIER_INTERVAL
    /\ \/ \E j \in (LookupFrom.nHeight + 1) .. (lookup.ret.nStakeModifierHeight - 1) :
            BlockAt(j).fGeneratedStakeModifier
       \/ ChainAt(chainActive, LookupFrom.nHeight) # lookup.hashBlockFrom

LookupIndexed == lookup.made /\ lookup.hashBlockFrom \in DOMAIN mapBlockIndex

LookupFailed == ~lookup.ret.ok /\ lookup.ret.nStakeModifier = 0

\* the loop body ran at most once per block of the active chain
LookupTerminated == lookup.ret.steps <= Len(chainActive)

\* C14 as stated: GetKernelStakeModifier terminates, and it returns failure
\* with modifier output 0 when the origin hash is not indexed or when the
\* active chain has no generating block above the origin's height with a time
\* of at least the origin's time + 2087; it never returns success then.
C14_FailsWithoutOldEnough ==
    lookup.made =>
        /\ LookupTerminated
        /\ ~LookupIndexed => LookupFailed
        /\ (LookupIndexed /\ OldEnoughHeights = {}) => LookupFailed

\* C14 amended: GetKernelStakeModifier terminates; it returns failure with
\* modifier output 0 when the origin hash is not indexed; outside regtest it
\* returns failure with modifier output 0 exactly when the active chain has
\* no generating block above the origin's height with a time of at least the
\* origin's time + 2087; on regtest it returns success for every indexed
\* origin, whatever the active chain holds.
C14_FailsWithoutOldEnoughOutsideRegtest ==
    lookup.made =>
        /\ LookupTerminated
        /\ ~LookupIndexed => LookupFailed
        /\ LookupWalked => (LookupFailed <=> OldEnoughHeights = {})
        /\ LookupWalked => (lookup.ret.ok <=> OldEnoughHeights # {})
        /\ (LookupIndexed /\ lookup.fRegTest) => lookup.ret.ok

\* a lookup outside regtest failed at the end of the active chain after it
\* had passed a generating block that was not old enough
C14_Witness ==
    /\ LookupWalked
    /\ LookupFailed
    /\ lookup.ret.steps >= 3
    /\ lookup.ret.nStakeModifierHeight > LookupFrom.nHeight
    /\ lookup.ret.nStakeModifierTime + 1 = LookupFrom.nTime + OLD_MODIFIER_INTERVAL

----------------------------------------------------------------------------
(* The preimage of the kernel hash *)

\* the four fields of a call's inputs
ProofFields(in) ==
    <<in.prev.nStakeModifierV2, in.stakeInput.nTimeBlockFrom, in.stakeInput.ssUniqueID,
      in.nTimeTx>>

TwoProofs == proof.made /\ proof.before.made

\* C15: the stream GetHashProofOfStake hashes is an injective function of
\* (prev.nStakeModifierV2, origin time, uniqueness bytes, candidate time):
\* two calls with equal fields hash equal streams, two calls that differ in a
\* field hash different streams; the stake value, the difficulty bits and the
\* legacy modifier have no influence.
C15_PreimageInjective ==
    TwoProofs =>
        (ProofFields(proof.in) = ProofFields(proof.before.in)
            <=> proof.ret.stream = proof.before.ret.stream)

\* two calls whose uniqueness streams have different lengths and whose other
\* inputs (stake value, bits, legacy modifier) all differ as well
C15_Witness ==
    /\ TwoProofs
    /\ Len(proof.in.stakeInput.ssUniqueID) # Len(proof.before.in.stakeInput.ssUniqueID)
    /\ proof.ret.stream # proof.before.ret.stream
    /\ proof.in.stakeInput.nValueIn # proof.before.in.stakeInput.nValueIn
    /\ proof.in.nBits # proof.before.in.nBits
    /\ proof.in.prev.nStakeModifier # proof.before.in.prev.nStakeModifier

----------------------------------------------------------------------------
(* The kernel search: order of the candidates, preconditions, the hashed map *)

\* the candidate times are start_time, start_time + 1, ... in this order
TriedInOrder ==
    \A i \in 1 .. Len(stake.tried) : stake.tried[i][1] = stake.nTimeTx0 + (i - 1)

\* C16: when Stake returns success (every tip check having found the height
\* of pindexPrev), the found time is the smallest candidate time in
\* [start_time, min(start_time + 60, max_future_drift)] for which
\* CheckStakeKernelHash passes; the candidates are tried in strictly
\* increasing order by steps of 1, the first one being start_time itself.
C16_SmallestPassingTime ==
    Entered =>
        /\ TriedInOrder
        /\ (stake.pc = "done" /\ stake.ret) =>
            /\ ~stake.sawChange
            /\ Len(stake.tried) >= 1
            /\ stake.tried[Len(stake.tried)] = <<stake.nTimeTx, TRUE>>
            /\ \A i \in 1 .. (Len(stake.tried) - 1) : ~stake.tried[i][2]
            /\ stake.nTimeTx <= WindowEnd

\* the search succeeded on its third candidate time
C16_Witness ==
    /\ Entered
    /\ stake.pc = "done"
    /\ stake.ret
    /\ Len(stake.tried) = 3
    /\ stake.nTimeTx = stake.nTimeTx0 + 2

\* a precondition of lines 334-347 is violated
PreconditionViolated ==
    \/ stake.nHeightFrom = NoOrigin
    \/ stake.nHeightFrom < 1
    \/ ~stake.fMinAgeOrDepth
    \/ ~stake.fMinAge

\* C17: Stake returns failure without evaluating a candidate time when the
\* stake's origin block is missing or at height < 1, when
\* HasStakeMinAgeOrDepth is violated or when nStakeMinAge exceeds the age of
\* the origin block; nTimeTx is left unchanged.
C17_PreconditionFailure ==
    (Entered /\ PreconditionViolated) =>
        /\ stake.pc = "done"
        /\ ~stake.ret
        /\ stake.tried = <<>>
        /\ stake.hashed = {}
        /\ stake.nTimeTx = stake.nTimeTx0

\* Stake was called for a stake whose origin is the block at height 0, the
\* age and depth being sufficient
C17_Witness ==
    /\ Entered
    /\ stake.nHeightFrom = 0
    /\ stake.fMinAgeOrDepth
    /\ stake.fMinAge
    /\ stake.pc = "done"
    /\ ~stake.ret

\* C18: after every call of Stake, whatever its outcome, mapHashedBlocks
\* holds exactly one entry, the one written by that call (the map was cleared
\* and written again).
C18_MapRerecorded ==
    (Entered /\ stake.pc = "done") =>
        /\ stake.recorded # NotRecorded
        /\ DOMAIN mapHashedBlocks = {stake.recorded[1]}
        /\ mapHashedBlocks[stake.recorded[1]] = stake.recorded[2]

----------------------------------------------------------------------------
(* Validation of a proof-of-stake block *)

\* the stages a candidate block passes, taken from the block alone
PassesCoinstake == validation.block.nTx >= 2 /\ validation.block.fCoinStake

PassesPrevTx == validation.block.fPrevFound

PassesScript == validation.block.fOutputExists /\ validation.block.fScriptOk

\* the kernel hash of the stake for the block's own time meets the target
\* weighted for the block's own bits
PassesKernel ==
    /\ validation.block.hashPrevBlock \in DOMAIN mapBlockIndex
    /\ mapBlockIndex[validation.block.hashPrevBlock] # NullIndex
    /\ CheckStakeKernel(mapBlockIndex[validation.block.hashPrevBlock], validation.block.nBits,
                        StakeInputOf(validation.block), validation.block.nTime)

\* the checks run when the first failing stage ends the validation
StagesExpected ==
    IF ~PassesCoinstake THEN <<"coinstake">>
    ELSE IF ~PassesPrevTx THEN <<"coinstake", "prevtx">>
    ELSE IF ~PassesScript THEN <<"coinstake", "prevtx", "script">>
    ELSE IF ~validation.block.fIndexFrom THEN <<"coinstake", "prevtx", "script", "origin">>
    ELSE <<"coinstake", "prevtx", "script", "origin", "kernel">>

\* C19: CheckProofOfStake accepts a block exactly when the four stages pass
\* in this order: the second transaction is a coinstake, the previous
\* transaction of its first input is found, the script of that input
\* verifies, the kernel hash for the block's own time and bits meets the
\* weighted target; the first failing stage rejects the block and no later
\* stage is run.
C19_StagesInOrder ==
    validation.made =>
        /\ validation.ret \in {"accepted", "rejected"}
        /\ validation.ret = "accepted"
            <=> (PassesCoinstake /\ PassesPrevTx /\ PassesScript /\ PassesKernel)
        /\ validation.stages = StagesExpected

\* C20: for a candidate block with any number of transactions, validation
\* ends in the rejection NotCoinstake whenever the block has no coinstake
\* transaction at index 1; it never crashes or runs on undefined values
\* because the second transaction is absent.
C20_NoCoinstakeRejected ==
    (validation.made /\ ~PassesCoinstake) =>
        /\ validation.ret = "rejected"
        /\ validation.reason = "NotCoinstake"

\* C21: a validation never accepts a block whose coinstake transaction's time
\* differs from the time of the block header (the block is rejected,
\* BadTimestamp), and CheckCoinStakeTimestamp returns true exactly when the
\* two times are equal.
C21_TimestampRule ==
    /\ \A nTimeBlock \in HeaderTimes, nTimeTx \in HeaderTimes :
            CheckCoinStakeTimestamp(nTimeBlock, nTimeTx) <=> (nTimeBlock = nTimeTx)
    /\ (validation.made /\ validation.block.nTimeTx # validation.block.nTime) =>
            validation.ret # "accepted"

\* C23: a call of CheckProofOfStake leaves the block index as it was (the same
\* keys, the same records), whether or not the parent named by the candidate
\* block is indexed, and a second validation of the same block on the
\* unchanged chain has the outcome of the first.
C23_IndexUnchanged ==
    [][(validation' # validation) =>
            /\ mapBlockIndex' = mapBlockIndex
            /\ (validation'.calls = 2 => validation'.ret = validation'.first)]_vars

----------------------------------------------------------------------------
(* The checkpoints of the stake modifier *)

\* the call c is on the main network, for a height of the table, with a
\* checksum that is not the one of the table
CheckpointMismatch(c) ==
    /\ c.network = MAIN
    /\ c.nHeight \in DOMAIN StakeModifierCheckpoints
    /\ c.nStakeModifierChecksum # StakeModifierCheckpoints[c.nHeight]

\* C22: CheckStakeModifierCheckpoints returns false exactly when the network
\* is the main network, the height has an entry in the checkpoint table and
\* the checksum differs from that entry; it returns true on every other
\* network and for every height without an entry, and the table never gets
\* an entry more (nor loses or changes one).
C22_CheckpointMismatchOnly ==
    checkpoint.made =>
        /\ ~checkpoint.ret <=> CheckpointMismatch(checkpoint)
        /\ checkpoint.before.made =>
                (~checkpoint.before.ret <=> CheckpointMismatch(checkpoint.before))
        /\ mapStakeModifierCheckpoints = StakeModifierCheckpoints

\* a call for a height without an entry on the main network, then a call
\* that fails on height 0 with a checksum one bit off
C22_Witness ==
    /\ checkpoint.made
    /\ checkpoint.before.made
    /\ checkpoint.before.network = MAIN
    /\ checkpoint.before.nHeight = 1
    /\ checkpoint.before.ret
    /\ checkpoint.network = MAIN
    /\ checkpoint.nHeight = 0
    /\ checkpoint.nStakeModifierChecksum = Uint32Bytes(230, 244, 17, 253)
    /\ ~checkpoint.ret

----------------------------------------------------------------------------
(* Inheritance of the modifier *)

\* C24: in a chain grown by storing the results of ComputeNextStakeModifier,
\* every block with generated = false has a proper ancestor with
\* generated = true and carries the modifier stored in the nearest one.
C24_InheritsFromNearestGenerating ==
    \A h \in 0 .. TopHeight :
        ~BlockAt(h).fGeneratedStakeModifier =>
            /\ h >= 1
            /\ HasGenerating(h - 1)
            /\ BlockAt(h).nStakeModifier = BlockAt(NearestGenerating(h - 1)).nStakeModifier

\* block 2 inherits from block 1, block 3 generates a fresh modifier, which
\* is not the one of block 1, and block 4 inherits from block 3
C24_Witness ==
    /\ TopHeight >= 4
    /\ ~BlockAt(2).fGeneratedStakeModifier
    /\ BlockAt(3).fGeneratedStakeModifier
    /\ BlockAt(3).nStakeModifier # BlockAt(1).nStakeModifier
    /\ ~BlockAt(4).fGeneratedStakeModifier
    /\ BlockAt(4).nStakeModifier = BlockAt(3).nStakeModifier

----------------------------------------------------------------------------
(* GetLastStakeModifier on any block index *)

\* heights of the generating blocks from the start of the last call back to
\* the chain start
GeneratingFromStart ==
    IF lastModifier.pindex = NullHash THEN {}
    ELSE {k \in 0 .. mapBlockIndex[lastModifier.pindex].nHeight : BlockAt(k).fGeneratedStakeModifier}

\* C25: GetLastStakeModifier(start) returns the stored modifier and the time
\* of the first generating block met on the walk from start (included)
\* through the parent links; it fails, the two outputs being left as they
\* were, exactly when start is null or no block from start back to the chain
\* start is generating.
C25_FirstGeneratingFromStart ==
    lastModifier.made =>
        IF GeneratingFromStart = {}
        THEN /\ ~lastModifier.ret.ok
             /\ lastModifier.ret.nStakeModifier = lastModifier.nStakeModifier0
             /\ lastModifier.ret.nModifierTime = lastModifier.nModifierTime0
        ELSE LET k == CHOOSE g \in GeneratingFromStart : \A j \in GeneratingFromStart : j <= g
             IN  /\ lastModifier.ret.ok
                 /\ lastModifier.ret.nStakeModifier = BlockAt(k).nStakeModifier
                 /\ lastModifier.ret.nModifierTime = BlockAt(k).nTime

\* the walk starts on a block that is not generating and passes its parent,
\* the generating block being at the chain start and the blocks' modifiers
\* and times not all the same
C25_Witness ==
    /\ lastModifier.made
    /\ lastModifier.pindex # NullHash
    /\ mapBlockIndex[lastModifier.pindex].nHeight = 2
    /\ GeneratingFromStart = {0}
    /\ BlockAt(0).nStakeModifier # BlockAt(2).nStakeModifier
    /\ BlockAt(0).nTime # BlockAt(1).nTime
    /\ lastModifier.nStakeModifier0 = 5
    /\ lastModifier.ret.ok
    /\ lastModifier.ret.nStakeModifier = BlockAt(0).nStakeModifier

----------------------------------------------------------------------------
(* The candidates of a fresh modifier *)

\* the parent of the last call and its height
CallPrev == mapBlockIndex[call.pindexPrev]

\* the blocks of the candidate vector of the last call
CallCandidates ==
    {call.ret.vSortedByTimestamp[i][2] : i \in 1 .. Len(call.ret.vSortedByTimestamp)}

\* the vector holds the pairs (time, hash) of distinct blocks in ascending order
CandidatesSorted ==
    LET v == call.ret.vSortedByTimestamp
    IN  /\ \A i \in 1 .. Len(v) : v[i] = <<mapBlockIndex[v[i][2]].nTime, v[i][2]>>
        /\ \A i \in 1 .. Len(v) : \A j \in 1 .. Len(v) : i < j => PairLess(v[i], v[j])

\* the ancestors of the parent (the parent included) of time >= nTimeStart
AncestorsSince(nTimeStart) ==
    {chainActive[k + 1] : k \in {j \in 0 .. CallPrev.nHeight : BlockAt(j).nTime >= nTimeStart}}

\* the unbroken run of ancestors of time >= nTimeStart that ends at the parent
AncestorsRunSince(nTimeStart) ==
    {chainActive[k + 1] : k \in {j \in 0 .. CallPrev.nHeight :
        \A i \in j .. CallPrev.nHeight : BlockAt(i).nTime >= nTimeStart}}

\* C26 as stated: when a fresh modifier is generated the candidates are
\* exactly the ancestors of prev (prev included) of timestamp
\* >= prev.timestamp - 2087, on every chain, and they are in ascending
\* (timestamp, hash) order.
C26_CandidatesSincePrevTime ==
    (CallOnHeightAtLeastOne /\ CallGenerated) =>
        /\ CallCandidates = AncestorsSince(CallPrev.nTime - OLD_MODIFIER_INTERVAL)
        /\ CandidatesSorted

\* C26 amended: the candidates are exactly the unbroken run of ancestors of
\* prev, from prev back, of timestamp >= S, where S is 2087 below the start
\* of the modifier interval of prev.timestamp; the first ancestor of
\* timestamp < S ends the run, whatever the timestamps behind it; the
\* candidates are in ascending (timestamp, hash) order.
C26_CandidateRunSinceIntervalStart ==
    (CallOnHeightAtLeastOne /\ CallGenerated) =>
        /\ CallCandidates =
                AncestorsRunSince(Bucket(CallPrev.nTime) * MODIFIER_INTERVAL
                                    - OLD_MODIFIER_INTERVAL)
        /\ CandidatesSorted

\* a fresh modifier for a parent of time 2147: a candidate of time 30, which
\* is below 2147 - 2087, and an ancestor of time 30 that is no candidate,
\* being behind a block of time 10
C26_Witness ==
    /\ CallOnHeightAtLeastOne
    /\ CallGenerated
    /\ CallPrev.nTime = 2147
    /\ \E b \in CallCandidates : mapBlockIndex[b].nTime = 30
    /\ \E k \in 0 .. CallPrev.nHeight :
            BlockAt(k).nTime = 30 /\ chainActive[k + 1] \notin CallCandidates

----------------------------------------------------------------------------
(* The selection rounds *)

\* the block selected in round r of the last call (rounds count from 0)
SelectedIn(r) == call.ret.selected[r + 1].pindex

\* C27: when a fresh modifier is generated over n candidates, min(64, n)
\* rounds run, every round selects a candidate, and no block is selected in
\* two rounds.
C27_RoundsSelectDistinctBlocks ==
    (CallOnHeightAtLeastOne /\ CallGenerated) =>
        LET n == Cardinality(CallCandidates)
        IN  /\ n = Len(call.ret.vSortedByTimestamp)
            /\ Len(call.ret.selected) = Min(64, n)
            /\ \A r \in 0 .. (Min(64, n) - 1) : SelectedIn(r) \in CallCandidates
            /\ \A r1 \in 0 .. (Min(64, n) - 1) : \A r2 \in 0 .. (Min(64, n) - 1) :
                    r1 # r2 => SelectedIn(r1) # SelectedIn(r2)

\* four rounds over four candidates, round 0 selecting another block than the
\* first of the vector
C27_Witness ==
    /\ CallOnHeightAtLeastOne
    /\ CallGenerated
    /\ Len(call.ret.vSortedByTimestamp) = 4
    /\ Len(call.ret.selected) = 4
    /\ SelectedIn(0) # call.ret.vSortedByTimestamp[1][2]

\* the sum of the interval sections of the rounds 0 .. r
RECURSIVE SectionSum(_)
SectionSum(r) ==
    IF r < 0 THEN 0 ELSE GetStakeModifierSelectionIntervalSection(r) + SectionSum(r - 1)

\* the cutoff of round r of the last call: the window start plus the
\* sections of the rounds 0 .. r
Cutoff(r) == SelectionIntervalStart(CallPrev.nTime) + SectionSum(r)

\* the last call went into the selection rounds
CallSelected ==
    /\ CallOnHeightAtLeastOne
    /\ Len(call.ret.vSortedByTimestamp) >= 1

\* the candidates not selected before round r
Unselected(r) == CallCandidates \ {SelectedIn(q) : q \in 0 .. (r - 1)}

\* the candidates round r may select: not selected before, of time <= cutoff
Eligible(r) == {b \in Unselected(r) : mapBlockIndex[b].nTime <= Cutoff(r)}

\* C28: in every round the selected block has a timestamp <= the cutoff of
\* the round (window start plus the sections of the rounds up to it); a round
\* without a not-yet-selected candidate of timestamp <= cutoff selects
\* nothing and ComputeNextStakeModifier fails.
C28_SelectedWithinCutoff ==
    CallSelected =>
        /\ \A r \in 0 .. (Len(call.ret.selected) - 1) :
                /\ call.ret.selected[r + 1].nSelectionIntervalStop = Cutoff(r)
                /\ mapBlockIndex[SelectedIn(r)].nTime <= Cutoff(r)
        /\ (\E r \in 0 .. (CallRounds - 1) : Eligible(r) = {}) => ~call.ret.ok

\* the selection hash of block b in the last call as it is compared: the hash
\* of the block hash and the last modifier, shifted right by 32 bits for a
\* proof-of-stake block
EffectiveHash(b) ==
    LET raw == HashSelection(b, CallLastGenerating.nStakeModifier)
    IN  IF IsProofOfStake(b) THEN ShiftRight32(raw) ELSE raw

\* the place of block b in the (timestamp, hash) order
OrderKey(b) == <<mapBlockIndex[b].nTime, b>>

\* C29: in a round with a not-yet-selected candidate of timestamp <= cutoff,
\* the selected block is such a candidate, no such candidate has a smaller
\* effective selection hash, and of those with the same effective hash the
\* selected one comes first in (timestamp, hash) order.
C29_MinimumSelectionHash ==
    CallSelected =>
        \A r \in 0 .. (Len(call.ret.selected) - 1) :
            Eligible(r) # {} =>
                /\ SelectedIn(r) \in Eligible(r)
                /\ \A b \in Eligible(r) :
                    /\ ~Uint256Less(EffectiveHash(b), EffectiveHash(SelectedIn(r)))
                    /\ EffectiveHash(b) = EffectiveHash(SelectedIn(r)) =>
                            ~PairLess(OrderKey(b), OrderKey(SelectedIn(r)))

\* a round with two candidates within the cutoff and different effective
\* hashes that selects the later one, and a round with two candidates within
\* the cutoff and the same effective hash
C29_Witness ==
    /\ CallSelected
    /\ \E r \in 0 .. (Len(call.ret.selected) - 1) : \E b \in Eligible(r) :
            /\ PairLess(OrderKey(b), OrderKey(SelectedIn(r)))
            /\ Uint256Less(EffectiveHash(SelectedIn(r)), EffectiveHash(b))
    /\ \E r \in 0 .. (Len(call.ret.selected) - 1) : \E b \in Eligible(r) :
            /\ b # SelectedIn(r)
            /\ EffectiveHash(b) = EffectiveHash(SelectedIn(r))

----------------------------------------------------------------------------
(* The interval sections *)

\* a round of the schedule has run; its number
RoundDone == schedule.started /\ schedule.nRound >= 1

LastRound == schedule.nRound - 1

\* C30 as stated: section(r) =
\* floor(64 * MODIFIER_INTERVAL / (64 + (64 - 1 - r) * (MODIFIER_INTERVAL_RATIO - 1)))
\* for every r in 0 .. 63.
C30_SectionOf64 ==
    RoundDone =>
        schedule.nSection =
            (64 * MODIFIER_INTERVAL)
                \div (64 + (64 - 1 - LastRound) * (MODIFIER_INTERVAL_RATIO - 1))

\* C30 amended: section(r) =
\* floor(63 * MODIFIER_INTERVAL / (63 + (63 - r) * (MODIFIER_INTERVAL_RATIO - 1)))
\* for every r in 0 .. 63, and the 64 sections together are the 2087 seconds
\* of the selection window: the cutoff of the last round is the window start
\* plus 2087.
C30_SectionOf63 ==
    RoundDone =>
        /\ schedule.nSection =
                (63 * MODIFIER_INTERVAL)
                    \div (63 + (63 - LastRound) * (MODIFIER_INTERVAL_RATIO - 1))
        /\ schedule.nRound = 64 =>
                schedule.nSelectionIntervalStop
                    = schedule.nSelectionIntervalStart + OLD_MODIFIER_INTERVAL

\* round 4 has run, the first round whose section (20) is not what the
\* formula with 64 gives (21)
C30_Witness ==
    /\ RoundDone
    /\ LastRound = 4
    /\ schedule.nSection = 20
    /\ schedule.nSelectionIntervalStop = schedule.nSelectionIntervalStart + 100

----------------------------------------------------------------------------
(* The shift of the proof-of-stake selection hash *)

\* the raw selection hash of block b in the last call of
\* SelectBlockFromCandidates, and the value the loop compares
SelectionRaw(b) == HashSelection(b, selection.nStakeModifierPrev)

SelectionCompared(b) == SelectionHash(b, SelectionRaw(b))

\* the blocks of the vector of the last call, and those the loop looks at
SelectionBlocks == DOMAIN selection.index

SelectionOpen == SelectionBlocks \ selection.mapSelectedBlocks

\* block a stands before block b in the vector
SelectionBefore(a, b) ==
    PairLess(<<selection.index[a].nTime, a>>, <<selection.index[b].nTime, b>>)

\* C31: of two candidates with the same raw selection hash, the compared
\* value of the proof-of-stake one (raw >> 32) is <= the one of the
\* proof-of-work one (raw), and the proof-of-work one is not selected when the
\* proof-of-stake one is open and stands before it.
C31_EqualRawFavoursStake ==
    selection.made =>
        \A a \in SelectionBlocks : \A b \in SelectionBlocks :
            (IsProofOfStake(a) /\ ~IsProofOfStake(b) /\ SelectionRaw(a) = SelectionRaw(b)) =>
                /\ SelectionCompared(a) = ShiftRight32(SelectionRaw(a))
                /\ SelectionCompared(b) = SelectionRaw(b)
                /\ ~Uint256Less(SelectionCompared(b), SelectionCompared(a))
                /\ (a \in SelectionOpen /\ SelectionBefore(a, b)) =>
                        selection.ret.pindexSelected # b

\* a proof-of-stake and a proof-of-work candidate with the same raw hash, not
\* zero, both open and within the cutoff, with a third open candidate; the
\* proof-of-stake one is selected
C31_Witness ==
    /\ selection.made
    /\ \E a \in SelectionOpen : \E b \in SelectionOpen :
        /\ IsProofOfStake(a) /\ ~IsProofOfStake(b)
        /\ SelectionRaw(a) = SelectionRaw(b)
        /\ SelectionRaw(a) # Uint256Zero
        /\ Uint256Less(SelectionCompared(a), SelectionCompared(b))
        /\ selection.index[b].nTime <= selection.nSelectionIntervalStop
        /\ SelectionBefore(a, b)
        /\ Cardinality(SelectionOpen) >= 3
        /\ selection.ret.fSelected
        /\ selection.ret.pindexSelected = a

----------------------------------------------------------------------------
(* Proof of stake against proof of work in a round *)

\* the candidates round r may select, by kind
EligibleStake(r) == {b \in Eligible(r) : IsProofOfStake(b)}

EligibleWork(r) == {b \in Eligible(r) : ~IsProofOfStake(b)}

\* the raw selection hash of block b in the last call
RawHash(b) == HashSelection(b, CallLastGenerating.nStakeModifier)

----------------------------------------------------------------------------
(* Termination of the kernel search *)

\* what holds of the candidates tried so far and of the way the loop was left
SearchBounded ==
    Entered =>
        /\ Len(stake.tried) <= nHashDrift + 1
        /\ \A i \in 1 .. Len(stake.tried) :
                /\ stake.tried[i][1] = stake.nTimeTx0 + (i - 1)
                /\ i < Len(stake.tried) => ~stake.tried[i][2]
        /\ stake.maxFuture < stake.nTimeTx0 => stake.tried = <<>>
        /\ (stake.pc \in {"exit", "done"} /\ stake.passed) =>
                \/ stake.fSuccess /\ stake.tried[Len(stake.tried)][2]
                \/ ~stake.fSuccess /\ stake.sawChange
                \/ ~stake.fSuccess /\ ~(stake.nTryTime < stake.maxTime)

\* C33: every call of Stake returns; the loop evaluates at most 61 candidate
\* times, each 1 above the one before, and ends on the first success, on the
\* end of the window or on a tip check that finds another height, for every
\* start_time and max_future_drift; with max_future_drift < start_time no
\* candidate is evaluated.
C33_StakeTerminates ==
    /\ []SearchBounded
    /\ Entered ~> (stake.pc = "done")

\* a search returned failure after 61 candidate times, the window exhausted
C33_Witness ==
    /\ Entered
    /\ stake.pc = "done"
    /\ ~stake.ret
    /\ ~stake.sawChange
    /\ Len(stake.tried) = nHashDrift + 1
    /\ stake.nTryTime = stake.nTimeTx0 + nHashDrift

----------------------------------------------------------------------------
(* The outputs of the kernel search *)

\* C34: Stake changes the caller's nTimeTx only on success: after a return
\* of false (a precondition violated, the search aborted by a tip check, the
\* window exhausted) nTimeTx is what it was at entry; after a return of true
\* nTimeTx is the found time and hashProofOfStake is the kernel hash computed
\* for exactly that time.
C34_TimeWrittenOnSuccessOnly ==
    Entered =>
        /\ Len(stake.proofs) = Len(stake.tried)
        /\ ~stake.fSuccess => stake.nTimeTx = stake.nTimeTx0
        /\ stake.pc = "done" => stake.ret = stake.fSuccess
        /\ (stake.pc = "done" /\ ~stake.ret) => stake.nTimeTx = stake.nTimeTx0
        /\ (stake.pc = "done" /\ stake.ret) =>
            LET n == Len(stake.tried)
            IN  /\ n >= 1
                /\ stake.tried[n] = <<stake.nTimeTx, TRUE>>
                /\ stake.hashProofOfStake = stake.proofs[n]
                /\ stake.hashProofOfStake \in PassingHashes

\* a call returned true on its second candidate time, the first one having
\* produced another hash
C34_Witness ==
    /\ Entered
    /\ stake.pc = "done"
    /\ stake.ret
    /\ Len(stake.tried) = 2
    /\ stake.nTimeTx = stake.nTimeTx0 + 1
    /\ stake.proofs[1] # stake.proofs[2]
    /\ stake.hashProofOfStake = stake.proofs[2]

----------------------------------------------------------------------------
(* Hashing and the tip checks *)

\* every hashing follows a tip check that read the height of pindexPrev, and
\* a tip check that read another height is the last step of the search
HashedAfterEqualCheck ==
    /\ Len(stake.observed) = Len(stake.tried) + (IF stake.pc = "hash" THEN 1 ELSE 0)
    /\ \A i \in 1 .. Len(stake.observed) : stake.observed[i] = stake.prevHeight
    /\ stake.sawChange =>
            /\ stake.pc \in {"exit", "done"}
            /\ ~stake.fSuccess
            /\ stake.pc = "done" => ~stake.ret

\* C35 as stated: a candidate time is hashed only in an iteration whose tip
\* check read tip height = prev.height; once a check reads another height no
\* further candidate is hashed and the call returns false; a call entered
\* with tip height # prev.height hashes nothing.
C35_EnteredOffTipHashesNothing ==
    Entered =>
        /\ HashedAfterEqualCheck
        /\ ~stake.enteredOnPrev => stake.tried = <<>>

\* C35 amended: a candidate time is hashed only in an iteration whose tip
\* check read tip height = prev.height; once a check reads another height no
\* further candidate is hashed and the call returns false; a call whose first
\* tip check reads another height hashes nothing, whatever the tip was at
\* entry.
C35_FirstCheckOffTipHashesNothing ==
    Entered =>
        /\ HashedAfterEqualCheck
        /\ (stake.sawChange /\ stake.observed = <<>>) => stake.tried = <<>>

\* a call entered with the tip at the height of pindexPrev returned false
\* after its first tip check read another height, nothing being hashed
C35_Witness ==
    /\ Entered
    /\ stake.pc = "done"
    /\ stake.passed
    /\ stake.enteredOnPrev
    /\ stake.sawChange
    /\ stake.observed = <<>>
    /\ stake.tried = <<>>
    /\ ~stake.ret

----------------------------------------------------------------------------
(* The map of hashed blocks over the calls *)

\* a call that passed the preconditions has returned
ReturnedFromSearch == Entered /\ stake.pc = "done" /\ stake.passed

\* the map holds at most one entry, and after a call that passed the
\* preconditions the entry that call wrote
OneEntryOfLastSearch ==
    /\ Cardinality(DOMAIN mapHashedBlocks) <= 1
    /\ ReturnedFromSearch =>
            /\ stake.recorded # NotRecorded
            /\ DOMAIN mapHashedBlocks = {stake.recorded[1]}
            /\ mapHashedBlocks[stake.recorded[1]] = stake.recorded[2]

\* the exit block of Stake writes the entry under the tip height it reads
ExitKeyedByTip ==
    (stake.pc = "exit" /\ stake'.pc = "done") =>
        /\ DOMAIN mapHashedBlocks' = {tipHeight}
        /\ stake'.recorded[1] = tipHeight

\* C36 as stated: after any sequence of Stake calls the map holds at most
\* one entry; after a call that passed the preconditions it holds exactly one
\* entry, whose key is the tip height read at the end of that call, and this
\* key differs from prev.height when the search was aborted by a tip change.
C36_AbortKeyOffPrev ==
    /\ OneEntryOfLastSearch
    /\ (ReturnedFromSearch /\ stake.sawChange) => stake.recorded[1] # stake.prevHeight

\* C36 amended: after any sequence of Stake calls the map holds at most one
\* entry; after a call that passed the preconditions it holds exactly one
\* entry, whose key is the tip height read at the end of that call; after a
\* search aborted by a tip change this key can be any height, prev.height
\* included.
C36_OneEntryKeyedByEndTip ==
    /\ []OneEntryOfLastSearch
    /\ [][ExitKeyedByTip]_vars

\* a search was aborted by a tip change after hashing, and the entry it wrote
\* is under prev.height, the tip having moved back before the exit block
C36_Witness ==
    /\ ReturnedFromSearch
    /\ stake.sawChange
    /\ stake.tried # <<>>
    /\ stake.recorded[1] = stake.prevHeight
    /\ DOMAIN mapHashedBlocks = {stake.prevHeight}

----------------------------------------------------------------------------
(* The throttle of SubmitPut *)

\* a step is a call of SubmitPut
PutStep == putSession.created /\ putSession'.call.flip # putSession.call.flip

\* at most DHT_RECORD_LOCK_SECONDS have passed since the last accepted put
\* of key k
LockedNow(k) ==
    /\ k \in DOMAIN putSession.accepted
    /\ putSession.now - putSession.accepted[k] <= DHT_RECORD_LOCK_SECONDS

\* the put of the step is rejected and changes nothing but the message
PutRejected ==
    /\ putSession'.call.ret = "false"
    /\ putSession'.call.nPutItems = 0
    /\ putSession'.strPutErrorMessage = RecordLocked
    /\ putSession'.mPutCommands = putSession.mPutCommands
    /\ putSession'.vDataEntries = putSession.vDataEntries
    /\ putSession'.nPutRecords = putSession.nPutRecords
    /\ putSession'.accepted = putSession.accepted

\* the put of the step is accepted: the map holds the time of the put, the
\* record is queued and its header and chunks are handed to dht_put_item
PutAccepted ==
    LET k == putSession'.call.recordKey
    IN  /\ putSession'.call.ret # "false"
        /\ putSession'.strPutErrorMessage = ""
        /\ k \in DOMAIN putSession'.mPutCommands
        /\ putSession'.mPutCommands[k] = putSession.now
        /\ putSession'.vDataEntries = putSession.vDataEntries + 1
        /\ putSession'.call.nPutItems = 1 + putSession'.call.nChunks
        /\ \A j \in DOMAIN putSession'.mPutCommands :
                putSession'.mPutCommands[j] = putSession'.accepted[j]

\* C37: SubmitPut throttles per record key (public key, operation code): a
\* put is rejected with 'Record is locked', mPutCommands not updated, the
\* record not queued and no dht_put_item issued, whenever at most
\* DHT_RECORD_LOCK_SECONDS have passed since the last accepted put of its
\* key; otherwise, and so for a key never put before, it is accepted; more
\* than DHT_RECORD_LOCK_SECONDS lie between two accepted puts of a key.
C37_PutThrottledPerKey ==
    [][PutStep =>
        IF LockedNow(putSession'.call.recordKey) THEN PutRejected ELSE PutAccepted]_vars

\* a put was rejected exactly DHT_RECORD_LOCK_SECONDS after the accepted put
\* of its key, the other key having been put before, accepted again and then
\* erased from the map by the clean-up
C37_Witness ==
    /\ putSession.created
    /\ ~putSession.crashed
    /\ putSession.call.flip
    /\ putSession.call.ret = "false"
    /\ putSession.call.recordKey \in DOMAIN putSession.accepted
    /\ putSession.now - putSession.accepted[putSession.call.recordKey]
            = DHT_RECORD_LOCK_SECONDS
    /\ putSession.nPutRecords >= 32
    /\ \E j \in DOMAIN putSession.accepted : j \notin DOMAIN putSession.mPutCommands

----------------------------------------------------------------------------
(* The restart of the DHT network *)

\* the step returns from StartTorrentDHTNetwork
StartReturns == dhtNetwork'.nReturns # dhtNetwork.nReturns

\* the worker threads that were created and not joined
WorkerThreads(net) == {w \in DOMAIN net.workers : net.workers[w] # "joined"}

\* C38 as stated: when StartTorrentDHTNetwork returns, fShutdown is false and
\* exactly one worker thread exists, whatever calls of Start and Stop came
\* before, a Start with the thread of an earlier Start still present included.
C38_StartLeavesFlagClear ==
    [][StartReturns =>
        /\ dhtNetwork'.fShutdown = FALSE
        /\ Cardinality(WorkerThreads(dhtNetwork')) = 1
        /\ dhtNetwork'.pDHTTorrentThread \in WorkerThreads(dhtNetwork')]_vars

----------------------------------------------------------------------------
(* The alert wait_for_alert returns *)

\* C39 as stated: wait_for_alert returns only a non-null alert of the type
\* asked for, and GetDHTMutableData and PutDHTMutableData read their result
\* from an alert of the type they waited for, also when
\* StopTorrentDHTNetwork sets fShutdown during the wait.
C39_ReturnsAlertOfType ==
    /\ dhtBootstrap.pc = "returned" =>
            /\ dhtBootstrap.ret # NullAlert
            /\ dhtBootstrap.ret.type = dhtBootstrap.alert_type
    /\ dhtBootstrap.read # "none" => dhtBootstrap.read = dhtBootstrap.alert_type

====
